---------------------------- MODULE Spec2Model ----------------------------
(***************************************************************************)
(* The RGW file-handle cache (src/rgw/rgw_file.h): RGWFileHandle, its key  *)
(* construction, and RGWLibFS::lookup_fh / lookup_handle / unref / close,  *)
(* run by concurrent threads over the partitioned handle index (fh_cache)  *)
(* and the LRU lane set (fh_lru).                                          *)
(*                                                                         *)
(* fh_cache (cohort::lru::TreeX) and fh_lru (cohort::lru::LRU) are         *)
(* declared in common/cohort_lru.h, RGWFileHandle::reclaim in rgw_file.cc  *)
(* and XXH64 in xxhash.h; their bodies are modelled from the design text   *)
(* (sections 4.1 to 4.3 and 5).                                            *)
(***************************************************************************)
EXTENDS Integers, Sequences, FiniteSets, TLC

VARIABLES
  closed,      \* RGWLibFS::flags & FLAG_CLOSED
  obj,         \* the live RGWFileHandle objects: address -> fields
  part,        \* fh_cache: partition -> set of linked handles
  lanes,       \* fh_lru: lane -> queue of handles, MRU first, LRU last
  lane_hiwat,  \* fh_lru: per-lane high-water mark
  platch,      \* partition -> thread holding its latch (or Null)
  llatch,      \* lane -> thread holding its latch (or Null)
  owned,       \* address -> references handed out to callers, not yet unref'd
  pc,          \* thread -> position in the call it is running
  frame,       \* thread -> locals of the call it is running
  hist,        \* observations of the run (never read by the program)
  marker_cache,\* directory::marker_cache of the directory being listed
  offset,      \* the caller's *offset of readdir
  req,         \* the RGWListBucketsRequest or RGWReaddirRequest in progress
  called,      \* the last call of rcb and of add_marker (never read)
  session_map, \* SessionMap::session_map: client name -> Session
  sess,        \* the Session objects: address -> fields
  by_state,    \* SessionMap::by_state: state -> list of sessions
  result,      \* the last SessionMap call and what it returned (never read)
  wire,        \* the bufferlist a Session was encoded into
  linked,      \* the sessions on a list, by their last link (never read)
  rd           \* the RGWReadRequest in progress and the caller's buffer

cache_vars == <<closed, obj, part, lanes, lane_hiwat, platch, llatch, owned,
                pc, frame, hist>>

dir_vars == <<marker_cache, offset, req, called>>

sess_vars == <<session_map, sess, by_state, result, wire, linked>>

\* what the operations of one part leave alone
not_cache == <<dir_vars, sess_vars, rd>>
not_dir   == <<cache_vars, sess_vars, rd>>
not_sess  == <<cache_vars, dir_vars, rd>>
not_rd    == <<cache_vars, dir_vars, sess_vars>>

vars == <<closed, obj, part, lanes, lane_hiwat, platch, llatch, owned,
          pc, frame, hist, marker_cache, offset, req, called,
          session_map, sess, by_state, result, wire, linked, rd>>

(***************************************************************************)
(* Bounds of the model.                                                    *)
(***************************************************************************)
NumThreads    == 2
MaxPartitions == 2
MaxLanes      == 2
MaxHiwat      == 2
MaxHandles    == 2      \* lanes times high-water mark: the objects in use
MaxRefs       == 2      \* calls in flight plus references held by callers
TreeDepth     == 2      \* a lookup's parent has depth below this
MaxEntries    == 2      \* entries a listing hands to send_response
MaxClients    == 2      \* client names
MaxSessions   == 2      \* Session objects alive at a time
MaxSeq        == 3      \* state_seq a session is driven up to
MaxTid        == 2      \* request tids run from 0 to this
MaxIno        == 3      \* inode numbers run from 1 to this
MaxReadLen    == 5      \* bytes a read asks for
MaxBufLen     == 3      \* bytes of one buffer of a buffer list
MaxBufs       == 2      \* buffers of one buffer list
MaxEnd        == 3      \* the end offset passed to send_response_data
HashMod       == 32768  \* range of the stand-in hash
DeepHiwat     == 258    \* lane capacity of the deep-path configuration

Threads  == 1..NumThreads
Null     == 0          \* nullptr; also "no thread" for a free latch
ROOT     == -1         \* address of RGWLibFS::root_fh (a member, not pooled)

(***************************************************************************)
(* Strings are sequences of characters.                                    *)
(***************************************************************************)
Slash    == 47
Names    == {<<97>>, <<98>>}
root_name == <<Slash>>
fsid     == root_name \o <<114>> \o <<49>>

seed      == 8675309
MAX_DEPTH == 256

\* errno.h
EPERM == 1

RECURSIVE Pow31(_)
\* 31^n modulo HashMod, by squaring
Pow31(n) ==
  IF n = 0 THEN 1 % HashMod
  ELSE (((Pow31(n \div 2) * Pow31(n \div 2)) % HashMod)
        * (IF n % 2 = 1 THEN 31 ELSE 1)) % HashMod

RECURSIVE HashFrom(_, _, _)
\* the bytes s[lo..hi] folded in order, h := h * 31 + byte, from h = 0; the
\* range is folded by halves
HashFrom(s, lo, hi) ==
  IF lo > hi THEN 0
  ELSE IF lo = hi THEN s[lo] % HashMod
  ELSE (HashFrom(s, lo, (lo + hi) \div 2) * Pow31(hi - ((lo + hi) \div 2))
        + HashFrom(s, ((lo + hi) \div 2) + 1, hi)) % HashMod

\* XXH64(data, len, seed): a deterministic hash of the bytes and the seed,
\* here the fold above started from the seed.
XXH64(s, sd) ==
  ((sd % HashMod) * Pow31(Len(s)) + HashFrom(s, 1, Len(s))) % HashMod

\* fh_key(const uint64_t bk, const char *_o)
fh_key(bk, o) == [bucket |-> bk, object |-> XXH64(o, seed)]

FLAG_NONE == {}

RootFh ==
  [ fhk     |-> [bucket |-> XXH64(fsid, seed), object |-> XXH64(root_name, seed)],
    name    |-> root_name,
    parent  |-> Null,
    bucket  |-> Null,
    depth   |-> 0,
    flags   |-> {"ROOT"},
    fh_type |-> "DIRECTORY",
    refcnt  |-> 0,
    pending |-> FALSE,
    freed   |-> FALSE ]

\* A freed object keeps its bytes until its address is allocated again: a
\* read through a dangling pointer sees them (or the object now there).
Live == {h \in DOMAIN obj : ~obj[h].freed}

Fh(h) == IF h = ROOT THEN RootFh ELSE obj[h]

is_root(h)   == "ROOT" \in Fh(h).flags
is_bucket(h) == "BUCKET" \in Fh(h).flags
is_open(h)   == "OPEN" \in Fh(h).flags
is_file(h)   == Fh(h).fh_type = "FILE"
is_dir(h)    == Fh(h).fh_type = "DIRECTORY"

(***************************************************************************)
(* Key construction.                                                       *)
(***************************************************************************)
\* memory that can be read: the root, the live objects, the stale bytes
Mapped(h) == h = ROOT \/ h \in DOMAIN obj

\* the exit test of the while loop of full_object_name (a pointer into
\* unmapped memory ends the walk: no walk of the model meets one)
Stops(tfh) == tfh = Null \/ ~Mapped(tfh) \/ is_bucket(tfh)

RECURSIVE Walk(_, _)
\* the handles the while loop of full_object_name visits from tfh on, in at
\* most k rounds: tfh, tfh->parent, ... up to the exit test (the rounds are
\* run by halves)
Walk(tfh, k) ==
  IF k = 0 THEN <<>>
  ELSE IF k = 1 THEN (IF Stops(tfh) THEN <<>> ELSE <<tfh>>)
  ELSE LET a == Walk(tfh, k \div 2)
       IN IF Len(a) < k \div 2 THEN a
          ELSE a \o Walk(Fh(a[Len(a)]).parent, k - (k \div 2))

\* a walk meets each object once at most, and the root
MaxWalk == Cardinality(DOMAIN obj) + 1

\* the names collected by the while loop of full_object_name, leaf first
Segments(tfh) ==
  LET w == Walk(tfh, MaxWalk) IN [i \in 1..Len(w) |-> Fh(w[i]).name]

RECURSIVE JoinReversed(_, _, _)
\* the for loop of full_object_name over reverse(segments): what it appends
\* for the segments from index hi down to index lo (the range is joined by
\* halves)
JoinReversed(segs, hi, lo) ==
  IF hi < lo THEN <<>>
  ELSE IF hi = lo
    THEN (IF hi = Len(segs) THEN <<>> ELSE <<Slash>>) \o segs[hi]
  ELSE LET mid == (hi + lo) \div 2
       IN JoinReversed(segs, hi, mid + 1) \o JoinReversed(segs, mid, lo)

full_object_name(h, min_depth) ==
  IF Fh(h).depth <= min_depth THEN <<>>
  ELSE LET segs == Segments(h) IN JoinReversed(segs, Len(segs), 1)

make_key_name(h, name) ==
  LET key_name == full_object_name(h, 1)
  IN (IF Len(key_name) > 0 THEN key_name \o <<Slash>> ELSE key_name) \o name

make_fhk(h, name) ==
  IF Fh(h).depth <= 1
    THEN fh_key(Fh(h).fhk.object, name)
    ELSE fh_key(Fh(h).fhk.object, make_key_name(h, name))

\* the key lookup_fh computes for (parent, name): lines 568 to 571
LookupKey(parent, name) == make_fhk(parent, make_key_name(parent, name))

(***************************************************************************)
(* RGWFileHandle construction (shared by Factory::alloc and ::recycle).    *)
(***************************************************************************)
\* RGWFileHandle(fs, fs_inst, _parent, _fhk, _name, _flags); the LRU fields
\* are those lru.insert leaves on the object it returns (one reference).
NewFileHandle(parent, fhk, name, cflags) ==
  [ fhk     |-> fhk,
    name    |-> name,
    parent  |-> parent,
    bucket  |-> IF is_root(parent) THEN Null
                ELSE IF is_bucket(parent) THEN parent ELSE Fh(parent).bucket,
    depth   |-> (Fh(parent).depth + 1) % 65536,
    flags   |-> IF is_root(parent) THEN cflags \cup {"BUCKET"} ELSE cflags,
    fh_type |-> IF is_root(parent) \/ "DIRECTORY" \in cflags
                THEN "DIRECTORY" ELSE "FILE",
    refcnt  |-> 1,
    pending |-> FALSE,
    freed   |-> FALSE ]

\* RGWFileHandle::reclaim(): may the LRU recycle this handle?
reclaim(h) ==
  /\ ~(is_file(h) /\ is_open(h))
  /\ ~(is_dir(h) /\ Fh(h).depth = 0)

(***************************************************************************)
(* fh_cache: the partitioned index.                                        *)
(***************************************************************************)
\* a cache that selected the partition by the bucket hash
SelectorBucket(fhk) == fhk.bucket

\* lines 574 and 634: the partition selector handed to find_latch
Selector(fhk) == fhk.object

\* the partition the selector chooses
PartOf(fhk) == Selector(fhk) % Cardinality(DOMAIN part)

\* the lookup find_latch performs in the latched partition
find(fhk) ==
  LET hits == {h \in part[PartOf(fhk)] : obj[h].fhk = fhk}
  IN IF hits = {} THEN Null ELSE CHOOSE h \in hits : TRUE

(***************************************************************************)
(* fh_lru: the lanes.                                                      *)
(***************************************************************************)
InLane(h, l) == \E i \in 1..Len(lanes[l]) : lanes[l][i] = h

lane_of(h) == CHOOSE l \in DOMAIN lanes : InLane(h, l)

Without(q, h) == SelectSeq(q, LAMBDA x : x # h)

\* a handle the eviction scan may claim
can_reclaim(h) == obj[h].refcnt = 0 /\ ~obj[h].pending /\ reclaim(h)

\* the scan of lane l from its LRU end: the victim, or Null
Victim(l) ==
  LET q == lanes[l]
      c == {i \in 1..Len(q) : can_reclaim(q[i])}
  IN IF c = {} THEN Null ELSE q[CHOOSE i \in c : \A j \in c : j <= i]

\* lru.ref fails on a handle a reclaimer has claimed
ref_fails(h) == obj[h].pending

\* lru.ref(h, FLAG_INITIAL): one more reference, no move to MRU
ref_initial(o, h) == [o EXCEPT ![h].refcnt = @ + 1]

\* lru.unref(h): one reference less
unref_count(n) == IF n > 0 THEN n - 1 ELSE 0

\* the lowest address not in use (operator new)
NewAddr == CHOOSE a \in DOMAIN owned : a \notin Live /\ \A b \in DOMAIN owned : b < a => b \in Live

(***************************************************************************)
(* Threads.                                                                *)
(***************************************************************************)
NoKey == [bucket |-> 0, object |-> 0]

NoFrame ==
  [ op |-> "none", parent |-> Null, name |-> <<>>, cflags |-> {},
    fhk |-> NoKey, fh |-> Null, victim |-> Null, lane |-> 0, ix |-> 0,
    made |-> "no", retried |-> FALSE, rc |-> 0, clear |-> FALSE ]

RECURSIVE SumRange(_, _, _)
SumRange(f, lo, hi) ==
  IF lo > hi THEN 0
  ELSE IF lo = hi THEN f[lo]
  ELSE LET mid == (lo + hi) \div 2
       IN SumRange(f, lo, mid) + SumRange(f, mid + 1, hi)

Sum(f) == SumRange(f, 1, Len(f))

Looking == {t \in Threads : frame[t].op \in {"lookup_fh", "lookup_handle"}}

\* calls in flight plus references callers hold stay within the budget
Budget == Cardinality(Looking) + Sum(owned) < MaxRefs

\* calls in flight that were handed h: lookups as their parent, open() as
\* the handle it is called on
ParentUses(h) ==
  Cardinality({t \in Threads :
    frame[t].parent = h \/ (frame[t].op = "open" /\ frame[t].fh = h)})

\* a handle a caller may pass as the parent of a lookup: a directory it
\* holds a reference on, every ancestor of which is still that ancestor
ChainIntact(h) ==
  IF h = ROOT THEN TRUE
  ELSE /\ h \in Live
       /\ LET w == Walk(h, MaxWalk)
              c == w \o <<IF w = <<>> THEN h ELSE obj[w[Len(w)]].parent>>
          IN /\ \A i \in 1..Len(c) : c[i] \in Live
             /\ obj[c[Len(c)]].parent = ROOT
             /\ \A i \in 1..(Len(c) - 1) :
                  /\ obj[c[i + 1]].fhk.object = obj[c[i]].fhk.bucket
                  /\ obj[c[i + 1]].depth + 1 = obj[c[i]].depth

Parents(cap) ==
  {ROOT} \cup {h \in Live : /\ owned[h] > 0
                            /\ is_dir(h)
                            /\ obj[h].depth < cap
                            /\ ChainIntact(h)}

Release(p) == [platch EXCEPT ![p] = Null]

(***************************************************************************)
(* Construction: RGWLibFS::RGWLibFS with its configuration.                *)
(***************************************************************************)
\* what the run has observed at its start; the order of accesses is kept
\* only where track is set
NoHist(track) ==
  [closeCalled |-> FALSE, closeDone |-> FALSE, late |-> {},
   survivors |-> {}, track |-> track, recent |-> <<>>, repeat |-> FALSE]

\* the keys in the order of their last access, the latest first
Touch(recent, fhk) == <<fhk>> \o SelectSeq(recent, LAMBDA k : k # fhk)

\* the observation of a lookup_fh for key fhk
Accessed(h, fhk) ==
  IF h.track
    THEN [h EXCEPT !.recent = Touch(@, fhk),
                   !.repeat = @ \/ \E i \in 1..Len(h.recent) : h.recent[i] = fhk]
    ELSE h

Configured(np, nl, hw) ==
  /\ closed = FALSE
  /\ obj = <<>>
  /\ part = [p \in 0..(np - 1) |-> {}]
  /\ lanes = [l \in 0..(nl - 1) |-> <<>>]
  /\ lane_hiwat = hw
  /\ platch = [p \in 0..(np - 1) |-> Null]
  /\ llatch = [l \in 0..(nl - 1) |-> Null]
  /\ owned = [a \in 1..(nl * hw + 1) |-> 0]
  /\ pc = [t \in Threads |-> "idle"]
  /\ frame = [t \in Threads |-> NoFrame]

\* no request, and no call of rcb yet
NoReq ==
  [ kind |-> "none", marker |-> <<>>, objs |-> <<>>, common_prefixes |-> <<>>,
    ix |-> 0, stopped |-> FALSE ]

NoCall == [ entry |-> <<>>, name |-> <<>>, cookie |-> 0, off |-> 0, rc |-> 0 ]

\* directory() : flags(0), an empty marker_cache; no readdir yet
NoListing ==
  /\ marker_cache = {}
  /\ offset = 0
  /\ req = NoReq
  /\ called = NoCall

\* Session::STATE_*
STATE_NEW           == 0
STATE_OPENING       == 1
STATE_OPEN          == 2
STATE_CLOSING       == 3
STATE_STALE         == 4
STATE_STALE_PURGING == 5
STATE_STALE_CLOSING == 6
STATE_CLOSED        == 7

States == STATE_NEW..STATE_CLOSED

NoResult == [op |-> "none", session |-> Null, arg |-> 0, value |-> 0]

\* SessionMap(MDS *m): no session, every list empty
NoSessions ==
  /\ session_map = <<>>
  /\ sess = <<>>
  /\ by_state = [st \in States |-> <<>>]
  /\ result = NoResult
  /\ wire = <<>>
  /\ linked = <<>>

\* no read request
NoRead == [active |-> FALSE, read_len |-> 0, nread |-> 0, high |-> 0]

InitWith(np, nl, hw) ==
  /\ Configured(np, nl, hw) /\ hist = NoHist(FALSE) /\ NoListing
  /\ NoSessions /\ rd = NoRead

Init ==
  \E np \in 1..MaxPartitions, nl \in 1..MaxLanes, hw \in 1..MaxHiwat :
    /\ nl * hw <= MaxHandles
    /\ InitWith(np, nl, hw)

(***************************************************************************)
(* RGWLibFS::lookup_fh.                                                    *)
(***************************************************************************)
\* a lookup that did not look at the flag
CheckClosedSkipped == FALSE

\* lines 564 and 626: flags & FLAG_CLOSED, read once, on entry
CheckClosed == closed

\* lines 558 to 571: the CLOSED check and the key
LookupFhCall(t, parent, name, cflags) ==
  /\ pc[t] = "idle"
  /\ IF CheckClosed
       THEN /\ pc' = [pc EXCEPT ![t] = "ret"]
            /\ frame' = [frame EXCEPT ![t] =
                 [NoFrame EXCEPT !.op = "lookup_fh"]]
            /\ hist' = hist
       ELSE /\ pc' = [pc EXCEPT ![t] = "find"]
            /\ frame' = [frame EXCEPT ![t] =
                 [NoFrame EXCEPT !.op = "lookup_fh", !.parent = parent,
                                 !.name = name, !.cflags = cflags,
                                 !.fhk = LookupKey(parent, name)]]
            /\ hist' = Accessed(hist, LookupKey(parent, name))
  /\ UNCHANGED <<closed, obj, part, lanes, lane_hiwat, platch, llatch,
                 owned>>
  /\ UNCHANGED not_cache

\* a lookup_fh that unlocked the partition on a miss, before lru.insert
MissLatchDropped(t) == Null

\* who holds the partition latch of the lookup after a miss, while lru.insert
\* runs: lines 586 to 593 keep it
MissLatch(t) == t

\* lines 573 to 579 and 586: find_latch(..., FLAG_LOCK), hit or miss
LookupFhFind(t) ==
  /\ pc[t] = "find"
  /\ frame[t].op = "lookup_fh"
  /\ platch[PartOf(frame[t].fhk)] = Null
  /\ LET fh == find(frame[t].fhk)
     IN /\ frame' = [frame EXCEPT ![t].fh = fh]
        /\ pc' = [pc EXCEPT ![t] = IF fh # Null THEN "ref" ELSE "insert"]
        /\ platch' = [platch EXCEPT ![PartOf(frame[t].fhk)] =
                        IF fh # Null THEN t ELSE MissLatch(t)]
  /\ UNCHANGED <<closed, obj, part, lanes, lane_hiwat, llatch, owned, hist>>
  /\ UNCHANGED not_cache

\* a lookup_fh that ignored the answer of lru.ref
LookupFhHitIgnored(ok) == "ret"

\* a lookup_fh that jumped to retry on success
LookupFhHitInverted(ok) == IF ok THEN "find" ELSE "ret"

\* lines 581 to 585 and 602 to 605: where lookup_fh goes once lru.ref has
\* answered: out with the handle, or back to retry
LookupFhHit(ok) == IF ok THEN "ret" ELSE "find"

\* lines 579 to 585 and 602 to 605: the reference of the fast path
LookupFhRef(t) ==
  /\ pc[t] = "ref"
  /\ frame[t].op = "lookup_fh"
  /\ LET fh == frame[t].fh
         ok == ~ref_fails(fh)
         to == LookupFhHit(ok)
     IN /\ ok => llatch[lane_of(fh)] = Null
        /\ obj' = IF ok THEN ref_initial(obj, fh) ELSE obj
        /\ platch' = Release(PartOf(frame[t].fhk))
        /\ pc' = [pc EXCEPT ![t] = to]
        /\ frame' = IF to = "find"
                      THEN [frame EXCEPT ![t].fh = Null, ![t].retried = TRUE]
                      ELSE frame
  /\ UNCHANGED <<closed, part, lanes, lane_hiwat, llatch, owned, hist>>
  /\ UNCHANGED not_cache

\* Factory::alloc (lines 484 to 486): a new object at a fresh address
alloc(o, a, rec) == [x \in DOMAIN o \cup {a} |-> IF x = a THEN rec ELSE o[x]]

\* a recycle that constructed a new object and left the old one as it was
recycleLeaking(o, v, rec) == alloc(o, NewAddr, rec)

\* Factory::recycle (lines 477 to 482): destroy, then construct in place
recycle(o, v, rec) == [o EXCEPT ![v] = rec]

\* lines 586 to 600: the Factory and lru.insert up to its scan. The scan of
\* lane l claims a victim, or the lane has room and a handle is allocated, or
\* insert returns null and lookup_fh unlocks and jumps to retry.
LookupFhInsert(t) ==
  /\ pc[t] = "insert"
  /\ \E l \in DOMAIN lanes :
       /\ llatch[l] = Null
       /\ LET v == Victim(l)
              rec == NewFileHandle(frame[t].parent, frame[t].fhk,
                                   frame[t].name, frame[t].cflags)
          IN IF v # Null
               THEN /\ obj' = [obj EXCEPT ![v].pending = TRUE]
                    /\ llatch' = [llatch EXCEPT ![l] = t]
                    /\ frame' = [frame EXCEPT ![t].victim = v, ![t].lane = l]
                    /\ pc' = [pc EXCEPT ![t] = "detach"]
                    /\ UNCHANGED <<lanes, platch>>
               ELSE IF Len(lanes[l]) < lane_hiwat
                 THEN /\ obj' = alloc(obj, NewAddr, rec)
                      /\ lanes' = [lanes EXCEPT ![l] = <<NewAddr>> \o @]
                      /\ frame' = [frame EXCEPT ![t].fh = NewAddr,
                                                ![t].made = "alloc"]
                      /\ pc' = [pc EXCEPT ![t] = "publish"]
                      /\ UNCHANGED <<llatch, platch>>
                 ELSE /\ platch' = Release(PartOf(frame[t].fhk))
                      /\ pc' = [pc EXCEPT ![t] = "find"]
                      /\ UNCHANGED <<obj, lanes, llatch, frame>>
  /\ UNCHANGED <<closed, part, lane_hiwat, owned, hist>>
  /\ UNCHANGED not_cache

\* lru.insert after its scan: under the lane latch, take the victim's
\* partition latch, unlink the victim from the index, recycle it in place and
\* put it at the MRU end with one reference
LookupFhDetach(t) ==
  /\ pc[t] = "detach"
  /\ LET v == frame[t].victim
         l == frame[t].lane
         rec == NewFileHandle(frame[t].parent, frame[t].fhk,
                              frame[t].name, frame[t].cflags)
     IN /\ platch[PartOf(obj[v].fhk)] = Null
        /\ part' = [part EXCEPT ![PartOf(obj[v].fhk)] = @ \ {v}]
        /\ obj' = recycle(obj, v, rec)
        /\ lanes' = [lanes EXCEPT ![l] = <<v>> \o Without(@, v)]
        /\ llatch' = [llatch EXCEPT ![l] = Null]
        /\ frame' = [frame EXCEPT ![t].fh = v, ![t].victim = Null,
                                  ![t].made = "recycle"]
        /\ hist' = [hist EXCEPT !.late = @ \ {v}]
        /\ pc' = [pc EXCEPT ![t] = "publish"]
  /\ UNCHANGED <<closed, lane_hiwat, platch, owned>>
  /\ UNCHANGED not_cache

\* lines 594 to 596: insert_latched(fh, lat, FLAG_UNLOCK)
LookupFhPublish(t) ==
  /\ pc[t] = "publish"
  /\ LET p == PartOf(frame[t].fhk)
     IN /\ part' = [part EXCEPT ![p] = @ \cup {frame[t].fh}]
        /\ platch' = Release(p)
  /\ hist' = [hist EXCEPT !.late = IF closed THEN @ \cup {frame[t].fh} ELSE @]
  /\ pc' = [pc EXCEPT ![t] = "ret"]
  /\ UNCHANGED <<closed, obj, lanes, lane_hiwat, llatch, owned, frame>>
  /\ UNCHANGED not_cache

\* lines 603 to 605 and 651 to 653: the call returns; the caller now holds
\* the reference
LookupReturn(t) ==
  /\ pc[t] = "ret"
  /\ frame[t].op \in {"lookup_fh", "lookup_handle"}
  /\ owned' = IF frame[t].fh # Null
                THEN [owned EXCEPT ![frame[t].fh] = @ + 1] ELSE owned
  /\ pc' = [pc EXCEPT ![t] = "idle"]
  /\ frame' = [frame EXCEPT ![t] = NoFrame]
  /\ UNCHANGED <<closed, obj, part, lanes, lane_hiwat, platch, llatch, hist>>
  /\ UNCHANGED not_cache

(***************************************************************************)
(* RGWLibFS::unref and RGWFileHandle::open.                                *)
(***************************************************************************)
\* lru.unref(h): drop a reference; at zero the handle stays, at the LRU end
lru_unref(h) ==
  /\ llatch[lane_of(h)] = Null
  /\ obj' = [obj EXCEPT ![h].refcnt = unref_count(@)]
  /\ lanes' = IF unref_count(obj[h].refcnt) = 0
                THEN [lanes EXCEPT ![lane_of(h)] = Without(@, h) \o <<h>>]
                ELSE lanes

\* lines 608 to 610. A caller drops a reference it holds and that no lookup
\* in flight borrows as its parent; once close() has been called the handles
\* are the context's to tear down and callers unref no more.
Unref(t, h) ==
  /\ pc[t] = "idle"
  /\ ~closed
  /\ h \in Live
  /\ owned[h] > ParentUses(h)
  /\ lru_unref(h)
  /\ owned' = [owned EXCEPT ![h] = @ - 1]
  /\ UNCHANGED <<closed, part, lane_hiwat, platch, llatch, pc, frame, hist>>
  /\ UNCHANGED not_cache

\* an open() that returned without setting the flag
openUnflagged(o, h) == o

\* lines 360 to 367: FLAG_OPEN is set if it was clear
open(o, h) == IF "OPEN" \notin o[h].flags THEN [o EXCEPT ![h].flags = @ \cup {"OPEN"}] ELSE o

\* lines 362 to 366: 0 when FLAG_OPEN was clear, else EPERM
open_rc(o, h) == IF "OPEN" \notin o[h].flags THEN 0 ELSE EPERM

\* a caller calls open() on a file handle it holds a reference on; clear
\* records whether the handle was not open when the call was made
OpenCall(t, h) ==
  /\ pc[t] = "idle"
  /\ ~closed
  /\ h \in Live
  /\ owned[h] > 0
  /\ is_file(h)
  /\ pc' = [pc EXCEPT ![t] = "open"]
  /\ frame' = [frame EXCEPT ![t] =
       [NoFrame EXCEPT !.op = "open", !.fh = h, !.clear = ~is_open(h)]]
  /\ UNCHANGED <<closed, obj, part, lanes, lane_hiwat, platch, llatch,
                 owned, hist>>
  /\ UNCHANGED not_cache

\* lines 360 to 367, under lock_guard guard(mtx): one step
Open(t) ==
  /\ pc[t] = "open"
  /\ obj' = open(obj, frame[t].fh)
  /\ frame' = [frame EXCEPT ![t].rc = open_rc(obj, frame[t].fh)]
  /\ pc' = [pc EXCEPT ![t] = "ret"]
  /\ UNCHANGED <<closed, part, lanes, lane_hiwat, platch, llatch, owned,
                 hist>>
  /\ UNCHANGED not_cache

\* open() returns to its caller
OpenReturn(t) ==
  /\ pc[t] = "ret"
  /\ frame[t].op = "open"
  /\ pc' = [pc EXCEPT ![t] = "idle"]
  /\ frame' = [frame EXCEPT ![t] = NoFrame]
  /\ UNCHANGED <<closed, obj, part, lanes, lane_hiwat, platch, llatch,
                 owned, hist>>
  /\ UNCHANGED not_cache

\* no open() is running: close() is the last call made on the context
NoOpenCalls == \A t \in Threads : frame[t].op # "open"

(***************************************************************************)
(* RGWLibFS::lookup_handle.                                                *)
(***************************************************************************)
\* the keys callers present: those of the buckets and of the live handles
HandleKeys ==
  {LookupKey(ROOT, n) : n \in Names} \cup {obj[h].fhk : h \in Live}

\* lines 624 to 630
LookupHandleCall(t, hk) ==
  /\ pc[t] = "idle"
  /\ IF CheckClosed
       THEN /\ pc' = [pc EXCEPT ![t] = "ret"]
            /\ frame' = [frame EXCEPT ![t] =
                 [NoFrame EXCEPT !.op = "lookup_handle"]]
       ELSE /\ pc' = [pc EXCEPT ![t] = "find"]
            /\ frame' = [frame EXCEPT ![t] =
                 [NoFrame EXCEPT !.op = "lookup_handle", !.fhk = hk]]
  /\ UNCHANGED <<closed, obj, part, lanes, lane_hiwat, platch, llatch,
                 owned, hist>>
  /\ UNCHANGED not_cache

\* lines 632 to 645 and 651 to 653: find_latch; a miss unlocks and returns
LookupHandleFind(t) ==
  /\ pc[t] = "find"
  /\ frame[t].op = "lookup_handle"
  /\ platch[PartOf(frame[t].fhk)] = Null
  /\ LET fh == find(frame[t].fhk)
     IN /\ frame' = [frame EXCEPT ![t].fh = fh]
        /\ pc' = [pc EXCEPT ![t] = IF fh # Null THEN "ref" ELSE "ret"]
        /\ platch' = [platch EXCEPT ![PartOf(frame[t].fhk)] =
                        IF fh # Null THEN t ELSE Null]
  /\ UNCHANGED <<closed, obj, part, lanes, lane_hiwat, llatch, owned, hist>>
  /\ UNCHANGED not_cache

\* a lookup_handle that ignored the answer of lru.ref
LookupHandleHitIgnored(ok) == "ret"

\* lines 646 to 653: where lookup_handle goes once lru.ref has answered
LookupHandleHit(ok) == IF ok THEN "ret" ELSE "find"

\* lines 646 to 653
LookupHandleRef(t) ==
  /\ pc[t] = "ref"
  /\ frame[t].op = "lookup_handle"
  /\ LET fh == frame[t].fh
         ok == ~ref_fails(fh)
         to == LookupHandleHit(ok)
     IN /\ ok => llatch[lane_of(fh)] = Null
        /\ obj' = IF ok THEN ref_initial(obj, fh) ELSE obj
        /\ platch' = Release(PartOf(frame[t].fhk))
        /\ pc' = [pc EXCEPT ![t] = to]
        /\ frame' = IF to = "find"
                      THEN [frame EXCEPT ![t].fh = Null, ![t].retried = TRUE]
                      ELSE frame
  /\ UNCHANGED <<closed, part, lanes, lane_hiwat, llatch, owned, hist>>
  /\ UNCHANGED not_cache

(***************************************************************************)
(* RGWLibFS::close.                                                        *)
(***************************************************************************)
\* line 668, and the start of fh_cache.drain
CloseCall(t) ==
  /\ pc[t] = "idle"
  /\ ~hist.closeCalled
  /\ closed' = TRUE
  /\ hist' = [hist EXCEPT !.closeCalled = TRUE]
  /\ pc' = [pc EXCEPT ![t] = "drain"]
  /\ frame' = [frame EXCEPT ![t] = [NoFrame EXCEPT !.op = "close"]]
  /\ UNCHANGED <<obj, part, lanes, lane_hiwat, platch, llatch, owned>>
  /\ UNCHANGED not_cache

\* drain(..., FLAG_LOCK): latch the next partition
CloseLock(t) ==
  /\ pc[t] = "drain"
  /\ platch[frame[t].ix] = Null
  /\ platch' = [platch EXCEPT ![frame[t].ix] = t]
  /\ pc' = [pc EXCEPT ![t] = "visit"]
  /\ UNCHANGED <<closed, obj, part, lanes, lane_hiwat, llatch, owned, frame,
                 hist>>
  /\ UNCHANGED not_cache

\* the lowest handle of partition p in the order of the tree (operator<)
key_lt(a, b) ==
  \/ a.bucket < b.bucket
  \/ a.bucket = b.bucket /\ a.object < b.object

First(p) == CHOOSE h \in part[p] :
              \A g \in part[p] \ {h} : ~key_lt(obj[g].fhk, obj[h].fhk)

\* ObjUnref (lines 670 to 683): one unref of the visited handle
ObjUnref(n) == unref_count(n)

\* delete: the bytes stay readable for a lookup in flight that was handed the
\* object as its parent; nobody else reads them again
free(o, h) ==
  IF ParentUses(h) > 0
    THEN [o EXCEPT ![h].refcnt = 0, ![h].freed = TRUE]
    ELSE [x \in DOMAIN o \ {h} |-> o[x]]

\* drain: unlink the first handle of the partition and call the visitor on
\* it; a handle left with no reference is freed, and the pointers
\* callers still hold to it dangle. One left with references stays in its
\* lane, out of the index.
CloseVisit(t) ==
  /\ pc[t] = "visit"
  /\ part[frame[t].ix] # {}
  /\ LET p == frame[t].ix
         h == First(p)
         l == lane_of(h)
         n == ObjUnref(obj[h].refcnt)
     IN /\ llatch[l] = Null
        /\ part' = [part EXCEPT ![p] = @ \ {h}]
        /\ IF n = 0
             THEN /\ obj' = free(obj, h)
                  /\ lanes' = [lanes EXCEPT ![l] = Without(@, h)]
                  /\ owned' = [owned EXCEPT ![h] = 0]
                  /\ hist' = [hist EXCEPT !.late = @ \ {h}]
             ELSE /\ obj' = [obj EXCEPT ![h].refcnt = n]
                  /\ lanes' = lanes
                  /\ owned' = owned
                  /\ hist' = [hist EXCEPT !.survivors = @ \cup {h}]
  /\ UNCHANGED <<closed, lane_hiwat, platch, llatch, pc, frame>>
  /\ UNCHANGED not_cache

\* drain: the partition is empty; unlatch it and go on, or return
CloseUnlock(t) ==
  /\ pc[t] = "visit"
  /\ part[frame[t].ix] = {}
  /\ platch' = Release(frame[t].ix)
  /\ IF frame[t].ix + 1 < Cardinality(DOMAIN part)
       THEN /\ frame' = [frame EXCEPT ![t].ix = @ + 1]
            /\ pc' = [pc EXCEPT ![t] = "drain"]
            /\ hist' = hist
       ELSE /\ frame' = [frame EXCEPT ![t] = NoFrame]
            /\ pc' = [pc EXCEPT ![t] = "idle"]
            /\ hist' = [hist EXCEPT !.closeDone = TRUE]
  /\ UNCHANGED <<closed, obj, part, lanes, lane_hiwat, llatch, owned>>
  /\ UNCHANGED not_cache

(***************************************************************************)
(* The system.                                                             *)
(***************************************************************************)
\* the flags callers pass: buckets are looked up with none, objects as files
\* or as directories
CFlags(parent) == IF parent = ROOT THEN {FLAG_NONE}
                  ELSE {FLAG_NONE, {"DIRECTORY"}}

Next ==
  \E t \in Threads :
    \/ \E parent \in Parents(TreeDepth), name \in Names :
         \E cflags \in CFlags(parent) :
           Budget /\ LookupFhCall(t, parent, name, cflags)
    \/ LookupFhFind(t)
    \/ LookupFhRef(t)
    \/ LookupFhInsert(t)
    \/ LookupFhDetach(t)
    \/ LookupFhPublish(t)
    \/ LookupReturn(t)
    \/ \E h \in DOMAIN owned : Unref(t, h)
    \/ \E h \in DOMAIN owned : OpenCall(t, h)
    \/ Open(t)
    \/ OpenReturn(t)
    \/ \E hk \in HandleKeys : Budget /\ LookupHandleCall(t, hk)
    \/ LookupHandleFind(t)
    \/ LookupHandleRef(t)
    \/ (NoOpenCalls /\ CloseCall(t))
    \/ CloseLock(t)
    \/ CloseVisit(t)
    \/ CloseUnlock(t)

Spec == Init /\ [][Next]_vars

(***************************************************************************)
(* Directory listing: RGWListBucketsRequest and RGWReaddirRequest on one   *)
(* directory handle rgw_fh, and that handle's marker cache.                *)
(***************************************************************************)
\* names of buckets ("a", "ab", "bC"; the last two have the same XXH64 here),
\* keys of objects ("a", "d/", "d/a") and common prefixes ("e/", "d/e/")
BucketNames == {<<97>>, <<97, 98>>, <<98, 67>>}
ObjKeys     == {<<97>>, <<100, Slash>>, <<100, Slash, 97>>}
Prefixes    == {<<101, Slash>>, <<100, Slash, 101, Slash>>}

\* std::string operator<
StrLt(a, b) ==
  \E i \in 1..Len(b) :
    /\ \A j \in 1..(i - 1) : j <= Len(a) /\ a[j] = b[j]
    /\ IF i > Len(a) THEN TRUE ELSE a[i] < b[i]

\* what a listing hands over: at most MaxEntries keys of S, in key order
Listings(S) ==
  {l \in UNION {[1..n -> S] : n \in 0..MaxEntries} :
     \A i \in 1..(Len(l) - 1) : StrLt(l[i], l[i + 1])}

\* lines 330 to 337: flat_map::insert keeps an entry that is there already
add_marker(d, off, marker) ==
  IF \E e \in d : e.off = off THEN d
  ELSE d \cup {[off |-> off, marker |-> marker]}

\* lines 340 to 349
find_marker(d, off) ==
  IF \E e \in d : e.off = off
    THEN (CHOOSE e \in d : e.off = off).marker
    ELSE <<>>

\* std::string::find_last_of('/'): 0 stands for npos
find_last_of(s) ==
  IF \E i \in 1..Len(s) : s[i] = Slash
    THEN CHOOSE i \in 1..Len(s) :
           s[i] = Slash /\ \A j \in (i + 1)..Len(s) : s[j] # Slash
    ELSE 0

\* lines 913 and 914: pop_back() of a trailing slash
pop_back(s) ==
  IF Len(s) > 0 /\ s[Len(s)] = Slash THEN SubSeq(s, 1, Len(s) - 1) ELSE s

\* the name after the last slash
ShortName(s) == SubSeq(s, find_last_of(s) + 1, Len(s))

\* bytes a freed string buffer may hold
Bytes == {97, 98}

\* lines 882 to 887 and 916 to 921. Without a slash sref refers to the key
\* itself. With one it is built from the temporary that substr() returned,
\* which is destroyed at the end of the statement: sref keeps the length and
\* a pointer to freed storage, whose bytes may be the name or anything else.
Sref(s) ==
  IF find_last_of(s) # 0
    THEN [1..Len(ShortName(s)) ->
            Bytes \cup {ShortName(s)[i] : i \in 1..Len(ShortName(s))}]
    ELSE {s}

\* (*offset)++ : the value left behind (uint64_t, as wide as a hash here)
PostIncrement(v) == (v + 1) % HashMod

\* what operator() leaves in *offset: lines 787 and 790, 864
OffsetLeft(kind, off) == IF kind = "buckets" THEN PostIncrement(off) ELSE off

\* lines 784 to 792 and 860 to 869: operator()(name, marker), with
\* marker = name. The result of rcb is dropped and 0 is returned.
Emit(entry, name) ==
  LET off == XXH64(name, seed)
  IN /\ offset' = OffsetLeft(req.kind, off)
     /\ marker_cache' = add_marker(marker_cache, off, name)
     /\ \E rc \in {0, 1} :
          /\ called' = [entry |-> entry, name |-> name, cookie |-> off,
                        off |-> off, rc |-> rc]
          /\ req' = [req EXCEPT !.ix = @ + 1,
                                !.stopped = @ \/ rc # 0,
                                !.objs = IF @ # <<>> THEN Tail(@) ELSE @,
                                !.common_prefixes =
                                  IF req.objs = <<>> THEN Tail(@) ELSE @]

\* the offsets a caller starts a readdir with: 0, or what an earlier
\* readdir left in *offset or handed to rcb
Starts == {0, offset, called.cookie}

\* lines 717 to 725: the constructor, and the buckets the operation lists
ListBucketsCall(start, buckets) ==
  /\ req.kind = "none"
  /\ offset' = start
  /\ req' = [NoReq EXCEPT !.kind = "buckets",
                          !.marker = find_marker(marker_cache, start),
                          !.objs = buckets]
  /\ called' = NoCall
  /\ UNCHANGED marker_cache
  /\ UNCHANGED not_dir

\* lines 767 to 778: one turn of the loop of send_response_data
SendBucket ==
  /\ req.kind = "buckets"
  /\ req.objs # <<>>
  /\ Emit(Head(req.objs), Head(req.objs))
  /\ UNCHANGED not_dir

\* lines 812 to 821: the constructor, and what the operation lists
ReaddirCall(start, objs, common_prefixes) ==
  /\ req.kind = "none"
  /\ offset' = start
  /\ req' = [NoReq EXCEPT !.kind = "objects",
                          !.marker = find_marker(marker_cache, start),
                          !.objs = objs,
                          !.common_prefixes = common_prefixes]
  /\ called' = NoCall
  /\ UNCHANGED marker_cache
  /\ UNCHANGED not_dir

\* lines 876 to 905: one turn of the first loop of send_response
SendObject ==
  /\ req.kind = "objects"
  /\ req.objs # <<>>
  /\ \E sref \in Sref(Head(req.objs)) :
       IF sref = <<>>
         THEN /\ req' = [req EXCEPT !.objs = Tail(@)]
              /\ UNCHANGED <<marker_cache, offset, called>>
         ELSE Emit(ShortName(Head(req.objs)), sref)
  /\ UNCHANGED not_dir

\* lines 906 to 934: one turn of the second loop of send_response
SendPrefix ==
  /\ req.kind = "objects"
  /\ req.objs = <<>>
  /\ req.common_prefixes # <<>>
  /\ \E sref \in Sref(pop_back(Head(req.common_prefixes))) :
       Emit(ShortName(pop_back(Head(req.common_prefixes))), sref)
  /\ UNCHANGED not_dir

\* the request is done and the caller has *offset
ReaddirReturn ==
  /\ req.kind # "none"
  /\ req.objs = <<>>
  /\ req.common_prefixes = <<>>
  /\ req' = NoReq
  /\ UNCHANGED <<marker_cache, offset, called>>
  /\ UNCHANGED not_dir

\* Factory::recycle (lines 477 to 482) of the directory handle, between two
\* requests: the new handle has an empty marker cache
RecycleDirectory ==
  /\ req.kind = "none"
  /\ marker_cache # {}
  /\ marker_cache' = {}
  /\ called' = NoCall
  /\ UNCHANGED <<offset, req>>
  /\ UNCHANGED not_dir

InitDir == InitWith(1, 1, 1)

NextDir ==
  \/ \E start \in Starts, buckets \in Listings(BucketNames) :
       ListBucketsCall(start, buckets)
  \/ SendBucket
  \/ \E start \in Starts, objs \in Listings(ObjKeys),
        common_prefixes \in Listings(Prefixes) :
       ReaddirCall(start, objs, common_prefixes)
  \/ SendObject
  \/ SendPrefix
  \/ ReaddirReturn
  \/ RecycleDirectory

SpecDir == InitDir /\ [][NextDir]_vars

(***************************************************************************)
(* The MDS session map: SessionMap and Session.                            *)
(***************************************************************************)
Clients == 1..MaxClients
Tids    == 0..MaxTid

\* the states callers drive a session to
Targets == {STATE_OPENING, STATE_OPEN, STATE_CLOSING}

\* the session map as one value: what the operations take and give back
SM == [session_map |-> session_map, sess |-> sess, by_state |-> by_state]

\* Session() : state(STATE_NEW), state_seq(0), with inst set by the caller
NewSession(name) ==
  [state |-> STATE_NEW, state_seq |-> 0, name |-> name,
   completed_requests |-> {}, pending_prealloc_inos |-> {},
   prealloc_inos |-> {}, used_inos |-> {}]

\* the address operator new gives the next Session
NewSess(M) == CHOOSE a \in 1..MaxSessions : a \notin DOMAIN M.sess

\* xlist::item::remove_myself: the item leaves the list it is on
remove_myself(bs, s) == [st \in DOMAIN bs |-> Without(bs[st], s)]

\* xlist::push_back: the item leaves the list it is on and becomes the
\* tail of this one
push_back(bs, st, s) ==
  [x \in DOMAIN bs |->
     IF x = st THEN Without(bs[x], s) \o <<s>> ELSE Without(bs[x], s)]

\* xlist::item::is_on_xlist
is_on_xlist(bs, s) ==
  \E st \in DOMAIN bs : \E i \in 1..Len(bs[st]) : bs[st][i] = s

\* session_map.count(w)
count(m, w) == IF w \in DOMAIN m THEN 1 ELSE 0

\* lines 208 to 212
get_session(M, w) ==
  IF count(M.session_map, w) # 0 THEN M.session_map[w] ELSE Null

\* a set_state that left state_seq as it was
set_stateUncounted(M, s, st) ==
  IF M.sess[s].state # st
    THEN [M EXCEPT !.sess[s].state = st, !.by_state = push_back(@, st, s)]
    ELSE M

\* lines 246 to 253; the value returned is the state_seq it leaves
set_state(M, s, st) ==
  IF M.sess[s].state # st
    THEN [M EXCEPT !.sess[s].state = st,
                   !.sess[s].state_seq = @ + 1,
                   !.by_state = push_back(@, st, s)]
    ELSE M

\* a get_or_add_open_session that did not look for the name, and made a
\* new session whenever it could
get_or_add_open_sessionAnew(M, name) ==
  IF DOMAIN M.sess = 1..MaxSessions THEN M
  ELSE set_state([M EXCEPT
                    !.session_map =
                       [w \in DOMAIN @ \cup {name} |->
                          IF w = name THEN NewSess(M) ELSE @[w]],
                    !.sess = (NewSess(M) :> NewSession(name)) @@ @],
                 NewSess(M), STATE_OPEN)

\* lines 213 to 221; the value returned is session_map[i.name]
get_or_add_open_session(M, name) ==
  IF count(M.session_map, name) # 0 THEN M
  ELSE set_state([M EXCEPT
                    !.session_map = (name :> NewSess(M)) @@ @,
                    !.sess = (NewSess(M) :> NewSession(name)) @@ @],
                 NewSess(M), STATE_OPEN)

\* an add_session that did not link the session
add_sessionUnlinked(M, s) ==
  [M EXCEPT !.session_map = (M.sess[s].name :> s) @@ @]

\* lines 222 to 227
add_session(M, s) ==
  [M EXCEPT !.session_map = (M.sess[s].name :> s) @@ @,
            !.by_state = push_back(@, M.sess[s].state, s)]

\* std::set::begin
Least(c) == CHOOSE t \in c : \A u \in c : t <= u

\* a trim that also took the tid equal to mintid
trimInclusive(c, mintid) == {t \in c : mintid # 0 /\ t > mintid}

\* lines 130 to 135: Session::trim_completed_requests
RECURSIVE trim(_, _)
trim(c, mintid) ==
  IF c # {} /\ (mintid = 0 \/ Least(c) < mintid)
    THEN trim(c \ {Least(c)}, mintid)
    ELSE c

\* lines 299 to 303
trim_completed_requests(M, c, tid) ==
  [M EXCEPT !.sess[get_session(M, c)].completed_requests = trim(@, tid)]

\* lines 294 to 298 and 127 to 129
add_completed_request(M, c, tid) ==
  [M EXCEPT !.sess[get_session(M, c)].completed_requests = @ \cup {tid}]

\* lines 290 to 293 and 136 to 138
have_completed_request(M, c, tid) ==
  /\ get_session(M, c) # Null
  /\ tid \in M.sess[get_session(M, c)].completed_requests

\* lines 228 to 233; put() drops the last reference and the session is gone
remove_session(M, s) ==
  [M EXCEPT !.sess = [a \in DOMAIN @ \ {s} |-> @[a]],
            !.by_state = remove_myself(@, s),
            !.session_map = [w \in DOMAIN @ \ {M.sess[s].name} |-> @[w]]]

\* a get_oldest_session that returned the other end of the list
get_oldest_sessionBack(M, st) ==
  IF M.by_state[st] = <<>> THEN Null
  ELSE M.by_state[st][Len(M.by_state[st])]

\* lines 242 to 245: xlist::front, or 0 for an empty list
get_oldest_session(M, st) ==
  IF M.by_state[st] = <<>> THEN Null ELSE Head(M.by_state[st])

\* a touch_session that linked a session that was on no list
touch_sessionLinking(M, s) ==
  [M EXCEPT !.by_state = push_back(@, M.sess[s].state, s)]

\* lines 234 to 241: a linked session goes to the tail of its list; for one
\* that is on no list assert(0) stops the process and nothing is linked
touch_session(M, s) ==
  IF is_on_xlist(M.by_state, s)
    THEN [M EXCEPT !.by_state = push_back(@, M.sess[s].state, s)]
    ELSE M

\* the session map becomes M
Becomes(M) ==
  /\ session_map' = M.session_map
  /\ sess' = M.sess
  /\ by_state' = M.by_state
  /\ wire' = wire

\* no assert has failed: the process runs
Running == result.op # "abort"

Abort(s) == [NoResult EXCEPT !.op = "abort", !.session = s]

\* the record of the links: session s was linked just now, or left its list
Relinked(s) == Without(linked, s) \o <<s>>
Unlinked(s) == Without(linked, s)

Registered(s) == \E w \in DOMAIN session_map : session_map[w] = s

\* a caller makes a Session for a client and has not yet added it
CreateSession(name) ==
  /\ Running
  /\ DOMAIN sess # 1..MaxSessions
  /\ sess' = (NewSess(SM) :> NewSession(name)) @@ sess
  /\ result' = [NoResult EXCEPT !.op = "new", !.session = NewSess(SM)]
  /\ UNCHANGED <<session_map, by_state, wire, linked>>
  /\ UNCHANGED not_sess

\* lines 145 to 147: a session that is in no map and on no list is deleted
DeleteSession(s) ==
  /\ Running
  /\ s \in DOMAIN sess
  /\ ~Registered(s)
  /\ ~is_on_xlist(by_state, s)
  /\ sess' = [a \in DOMAIN sess \ {s} |-> sess[a]]
  /\ result' = [NoResult EXCEPT !.op = "delete", !.session = s]
  /\ UNCHANGED <<session_map, by_state, wire, linked>>
  /\ UNCHANGED not_sess

GetOrAddOpenSession(name) ==
  /\ Running
  /\ IF count(session_map, name) # 0 THEN TRUE
     ELSE DOMAIN sess # 1..MaxSessions
  /\ Becomes(get_or_add_open_session(SM, name))
  /\ result' = [op |-> "get_or_add_open_session",
                session |-> get_or_add_open_session(SM, name).session_map[name],
                arg |-> name, value |-> count(session_map, name)]
  /\ linked' = IF count(session_map, name) # 0 THEN linked
               ELSE Relinked(NewSess(SM))
  /\ UNCHANGED not_sess

\* line 223: the name is not in the map
AddSession(s) ==
  /\ Running
  /\ s \in DOMAIN sess
  /\ ~Registered(s)
  /\ count(session_map, sess[s].name) = 0
  /\ Becomes(add_session(SM, s))
  /\ result' = [NoResult EXCEPT !.op = "add_session", !.session = s]
  /\ linked' = Relinked(s)
  /\ UNCHANGED not_sess

RemoveSession(s) ==
  /\ Running
  /\ s \in DOMAIN sess
  /\ Registered(s)
  /\ Becomes(remove_session(SM, s))
  /\ result' = [NoResult EXCEPT !.op = "remove_session", !.session = s]
  /\ linked' = Unlinked(s)
  /\ UNCHANGED not_sess

\* lines 234 to 241
TouchSession(s) ==
  /\ Running
  /\ s \in DOMAIN sess
  /\ Becomes(touch_session(SM, s))
  /\ result' = IF is_on_xlist(by_state, s)
                 THEN [NoResult EXCEPT !.op = "touch_session", !.session = s]
                 ELSE Abort(s)
  /\ linked' = IF is_on_xlist(by_state, s) THEN Relinked(s) ELSE linked
  /\ UNCHANGED not_sess

SetState(s, st) ==
  /\ Running
  /\ s \in DOMAIN sess
  /\ sess[s].state_seq < MaxSeq
  /\ Becomes(set_state(SM, s, st))
  /\ result' = [op |-> "set_state", session |-> s, arg |-> st,
                value |-> set_state(SM, s, st).sess[s].state_seq]
  /\ linked' = IF sess[s].state # st THEN Relinked(s) ELSE linked
  /\ UNCHANGED not_sess

\* lines 242 to 245
GetOldestSession(st) ==
  /\ Running
  /\ Becomes(SM)
  /\ result' = [NoResult EXCEPT !.op = "get_oldest_session",
                                !.session = get_oldest_session(SM, st),
                                !.arg = st]
  /\ linked' = linked
  /\ UNCHANGED not_sess

\* line 296: the client has a session
AddCompletedRequest(c, tid) ==
  /\ Running
  /\ get_session(SM, c) # Null
  /\ Becomes(add_completed_request(SM, c, tid))
  /\ result' = [op |-> "add_completed_request",
                session |-> get_session(SM, c), arg |-> tid, value |-> 0]
  /\ linked' = linked
  /\ UNCHANGED not_sess

\* line 301: the client has a session; value is how many tids went
TrimCompletedRequests(c, tid) ==
  /\ Running
  /\ get_session(SM, c) # Null
  /\ Becomes(trim_completed_requests(SM, c, tid))
  /\ result' = [op |-> "trim_completed_requests",
                session |-> get_session(SM, c), arg |-> tid,
                value |-> Cardinality(
                  sess[get_session(SM, c)].completed_requests
                  \ trim(sess[get_session(SM, c)].completed_requests, tid))]
  /\ linked' = linked
  /\ UNCHANGED not_sess

(***************************************************************************)
(* Preallocated inode numbers of a Session, and its encoding.              *)
(***************************************************************************)
Inos == 1..MaxIno

\* interval_set::start: the least number of the set
start(is) == CHOOSE i \in is : \A j \in is : i <= j

\* interval_set::contains
contains(is, i) == i \in is

\* interval_set::erase(i) and interval_set::insert(i, 1)
erase(is, i) == is \ {i}

insert(is, i) == is \cup {i}

\* a take_ino that did not look at its argument
takenLeast(S, ino) == start(S.prealloc_inos)

\* lines 73 to 82: the number take_ino takes
taken(S, ino) ==
  IF ino # 0 /\ contains(S.prealloc_inos, ino) THEN ino
  ELSE start(S.prealloc_inos)

\* lines 70 to 85, for prealloc_inos not empty
take_ino(S, ino) ==
  [S EXCEPT !.prealloc_inos = erase(@, taken(S, ino)),
            !.used_inos = insert(@, taken(S, ino))]

\* lines 149 to 158
clear(S) ==
  [S EXCEPT !.pending_prealloc_inos = {}, !.prealloc_inos = {},
            !.used_inos = {}, !.completed_requests = {}]

\* an encode that left used_inos out
encodeUnused(S) == <<1, S.name, S.completed_requests, S.prealloc_inos, {}>>

\* lines 160 to 167: the version byte, then four fields
encode(S) ==
  <<1, S.name, S.completed_requests, S.prealloc_inos, S.used_inos>>

\* a decode that kept used_inos
decodeKeeping(S, bl) ==
  [S EXCEPT !.name = bl[2], !.completed_requests = bl[3],
            !.prealloc_inos = bl[4] \cup bl[5], !.used_inos = bl[5]]

\* lines 168 to 177: the fields in turn, then used_inos goes into
\* prealloc_inos and is cleared
decode(S, bl) ==
  [S EXCEPT !.name = bl[2], !.completed_requests = bl[3],
            !.prealloc_inos = bl[4] \cup bl[5], !.used_inos = {}]

\* line 71: assert(!prealloc_inos.empty()) stops the process
TakeIno(s, ino) ==
  /\ Running
  /\ s \in DOMAIN sess
  /\ IF sess[s].prealloc_inos = {}
       THEN /\ result' = Abort(s)
            /\ sess' = sess
       ELSE /\ sess' = [sess EXCEPT ![s] = take_ino(@, ino)]
            /\ result' = [op |-> "take_ino", session |-> s, arg |-> ino,
                          value |-> taken(sess[s], ino)]
  /\ UNCHANGED <<session_map, by_state, wire, linked>>
  /\ UNCHANGED not_sess

ClearSession(s) ==
  /\ Running
  /\ s \in DOMAIN sess
  /\ sess' = [sess EXCEPT ![s] = clear(@)]
  /\ result' = [NoResult EXCEPT !.op = "clear", !.session = s]
  /\ UNCHANGED <<session_map, by_state, wire, linked>>
  /\ UNCHANGED not_sess

EncodeSession(s) ==
  /\ Running
  /\ s \in DOMAIN sess
  /\ wire' = encode(sess[s])
  /\ result' = [NoResult EXCEPT !.op = "encode", !.session = s]
  /\ UNCHANGED <<session_map, sess, by_state, linked>>
  /\ UNCHANGED not_sess

\* what was encoded is decoded into the session it came from, or into a
\* fresh Session that takes its place
DecodeSession(s, fresh) ==
  /\ Running
  /\ s \in DOMAIN sess
  /\ wire # <<>>
  /\ sess' = [sess EXCEPT ![s] =
       decode(IF fresh THEN NewSession(0) ELSE @, wire)]
  /\ result' = [NoResult EXCEPT !.op = "decode", !.session = s,
                                !.arg = IF fresh THEN 1 ELSE 0]
  /\ UNCHANGED <<session_map, by_state, wire, linked>>
  /\ UNCHANGED not_sess

\* the three sets of a session share no number
Disjoint(S) ==
  /\ S.prealloc_inos \cap S.pending_prealloc_inos = {}
  /\ S.prealloc_inos \cap S.used_inos = {}
  /\ S.pending_prealloc_inos \cap S.used_inos = {}

\* one session, whose sets are any three disjoint sets of numbers
InitInos ==
  /\ Configured(1, 1, 1) /\ hist = NoHist(FALSE) /\ NoListing /\ rd = NoRead
  /\ session_map = <<>>
  /\ by_state = [st \in States |-> <<>>]
  /\ result = NoResult
  /\ wire = <<>>
  /\ linked = <<>>
  /\ \E name \in Clients, done \in {{}, {MaxTid}},
        pre \in SUBSET Inos, pend \in SUBSET Inos, used \in SUBSET Inos :
       /\ sess = <<[NewSession(name) EXCEPT
                      !.completed_requests = done,
                      !.prealloc_inos = pre,
                      !.pending_prealloc_inos = pend,
                      !.used_inos = used]>>
       /\ Disjoint(sess[1])

NextInos ==
  \/ \E ino \in 0..MaxIno : TakeIno(1, ino)
  \/ ClearSession(1)
  \/ EncodeSession(1)
  \/ \E fresh \in BOOLEAN : DecodeSession(1, fresh)

SpecInos == InitInos /\ [][NextInos]_vars

InitSessions == InitWith(1, 1, 1)

NextSessions ==
  \/ \E name \in Clients : CreateSession(name)
  \/ \E s \in 1..MaxSessions : DeleteSession(s)
  \/ \E name \in Clients : GetOrAddOpenSession(name)
  \/ \E s \in 1..MaxSessions : AddSession(s)
  \/ \E s \in 1..MaxSessions : RemoveSession(s)
  \/ \E s \in 1..MaxSessions : TouchSession(s)
  \/ \E s \in 1..MaxSessions, st \in Targets : SetState(s, st)
  \/ \E c \in Clients, tid \in Tids : AddCompletedRequest(c, tid)
  \/ \E c \in Clients, tid \in Tids : TrimCompletedRequests(c, tid)

SpecSessions == InitSessions /\ [][NextSessions]_vars

\* the operations that link and unlink sessions, and get_oldest_session
NextOldest ==
  \/ \E name \in Clients : CreateSession(name)
  \/ \E s \in 1..MaxSessions : DeleteSession(s)
  \/ \E name \in Clients : GetOrAddOpenSession(name)
  \/ \E s \in 1..MaxSessions : AddSession(s)
  \/ \E s \in 1..MaxSessions : RemoveSession(s)
  \/ \E s \in 1..MaxSessions : TouchSession(s)
  \/ \E s \in 1..MaxSessions, st \in Targets : SetState(s, st)
  \/ \E st \in States : GetOldestSession(st)

SpecOldest == InitSessions /\ [][NextOldest]_vars

(***************************************************************************)
(* RGWLibFS::ref beside lookup_fh and unref.                               *)
(***************************************************************************)
\* the handles a caller has a pointer to: those it holds a reference on and,
\* by get_parent() (line 245), their parents
Pointers ==
  {h \in Live : owned[h] > 0}
    \cup {h \in Live : \E c \in Live : owned[c] > 0 /\ obj[c].parent = h}

\* lru.ref(h, FLAG_NONE): one more reference and the move to the MRU end,
\* or nothing when it fails
lru_ref(h) ==
  IF ref_fails(h)
    THEN UNCHANGED <<obj, lanes>>
    ELSE /\ llatch[lane_of(h)] = Null
         /\ obj' = ref_initial(obj, h)
         /\ lanes' = [lanes EXCEPT ![lane_of(h)] = <<h>> \o Without(@, h)]

\* lines 612 to 615: what lru.ref answers is dropped and fh is returned; the
\* caller counts one more reference of its own
Ref(t, h) ==
  /\ pc[t] = "idle"
  /\ ~closed
  /\ h \in Pointers
  /\ Sum(owned) < MaxRefs
  /\ lru_ref(h)
  /\ owned' = [owned EXCEPT ![h] = @ + 1]
  /\ UNCHANGED <<closed, part, lane_hiwat, platch, llatch, pc, frame, hist>>
  /\ UNCHANGED not_cache

NextRef ==
  \E t \in Threads :
    \/ \E parent \in Parents(TreeDepth), name \in Names :
         \E cflags \in CFlags(parent) :
           Budget /\ LookupFhCall(t, parent, name, cflags)
    \/ LookupFhFind(t)
    \/ LookupFhRef(t)
    \/ LookupFhInsert(t)
    \/ LookupFhDetach(t)
    \/ LookupFhPublish(t)
    \/ LookupReturn(t)
    \/ \E h \in DOMAIN owned : Unref(t, h)
    \/ \E h \in DOMAIN owned : Ref(t, h)

SpecRef == Init /\ [][NextRef]_vars

(***************************************************************************)
(* Lookups under a fair scheduler: a thread inside lookup_fh or            *)
(* lookup_handle that can take its next step is not kept from it for ever. *)
(* Callers are free to call, or to give a reference back, or not.          *)
(***************************************************************************)
\* the steps of thread t inside a call
InCall(t) ==
  \/ LookupFhFind(t)
  \/ LookupFhRef(t)
  \/ LookupFhInsert(t)
  \/ LookupFhDetach(t)
  \/ LookupFhPublish(t)
  \/ LookupHandleFind(t)
  \/ LookupHandleRef(t)
  \/ LookupReturn(t)

NextFair ==
  \E t \in Threads :
    \/ \E parent \in Parents(TreeDepth), name \in Names :
         \E cflags \in CFlags(parent) :
           Budget /\ LookupFhCall(t, parent, name, cflags)
    \/ \E hk \in HandleKeys : Budget /\ LookupHandleCall(t, hk)
    \/ LookupFhFind(t)
    \/ LookupFhRef(t)
    \/ LookupFhInsert(t)
    \/ LookupFhDetach(t)
    \/ LookupFhPublish(t)
    \/ LookupHandleFind(t)
    \/ LookupHandleRef(t)
    \/ LookupReturn(t)
    \/ \E h \in DOMAIN owned : Unref(t, h)

SpecFair ==
  Init /\ [][NextFair]_vars /\ \A t \in Threads : WF_vars(InCall(t))

(***************************************************************************)
(* RGWReadRequest: a read of read_len bytes into the caller's buffer.  The  *)
(* buffer list of a send_response_data call is the sequence of the lengths *)
(* of its buffers; rd.high is the end of the part of ulp_buffer that was   *)
(* written (every copy of a call starts where the previous one ended, the  *)
(* first at 0).                                                            *)
(***************************************************************************)
ReadLens   == 0..MaxReadLen
BufferLists ==
  UNION {[1..n -> 1..MaxBufLen] : n \in 0..MaxBufs}

Min(a, b) == IF a <= b THEN a ELSE b
Max(a, b) == IF a >= b THEN a ELSE b

\* line 1231: std::min(std::min(read_len, size_t(bp.length())), size_t(e_off))
bytes(r, bp, e_off) == Min(Min(r.read_len, bp), e_off)

RECURSIVE CopyFrom(_, _, _, _, _)
\* lines 1228 to 1237: the for loop from buffer i on, off being the local
\* offset into ulp_buffer
CopyFrom(r, bl, i, off, e_off) ==
  IF i > Len(bl) \/ r.nread >= r.read_len THEN r
  ELSE CopyFrom([r EXCEPT !.nread = @ + bytes(r, bl[i], e_off),
                          !.high = Max(@, off + bytes(r, bl[i], e_off))],
                bl, i + 1, off + bytes(r, bl[i], e_off), e_off)

\* lines 1218 to 1239
send_response_data(r, bl, e_off) == CopyFrom(r, bl, 1, 0, e_off)

\* lines 1164 to 1168: the constructor
ReadCall(len) ==
  /\ ~rd.active
  /\ rd' = [active |-> TRUE, read_len |-> len, nread |-> 0, high |-> 0]
  /\ UNCHANGED not_rd

SendResponseData(bl, e_off) ==
  /\ rd.active
  /\ rd' = send_response_data(rd, bl, e_off)
  /\ UNCHANGED not_rd

\* the request was executed: the caller reads nread from it; s_off only
\* moves the position read in the source buffer
ReadReturn ==
  /\ rd.active
  /\ rd' = [rd EXCEPT !.active = FALSE]
  /\ UNCHANGED not_rd

InitRead == InitWith(1, 1, 1)

NextRead ==
  \/ \E len \in ReadLens : ReadCall(len)
  \/ \E bl \in BufferLists, e_off \in 0..MaxEnd : SendResponseData(bl, e_off)
  \/ ReadReturn

SpecRead == InitRead /\ [][NextRead]_vars

(***************************************************************************)
(* One caller walking down a single path: every lookup_fh names the        *)
(* deepest directory so far as the parent, and no reference is given back. *)
(***************************************************************************)
InitDeep == InitWith(1, 1, DeepHiwat)

\* the directory the caller's last lookup returned: the deepest of the path
DeepParent ==
  IF Live = {} THEN ROOT
  ELSE CHOOSE h \in Live : owned[h] > 0 /\ obj[h].depth = Cardinality(Live)

NextDeep ==
  \/ /\ Cardinality(Live) < DeepHiwat
     /\ LookupFhCall(1, DeepParent, <<97>>,
                     IF Live = {} THEN FLAG_NONE ELSE {"DIRECTORY"})
  \/ LookupFhFind(1)
  \/ LookupFhInsert(1)
  \/ LookupFhPublish(1)
  \/ LookupReturn(1)

SpecDeep == InitDeep /\ [][NextDeep]_vars

(***************************************************************************)
(* One caller looking names up and giving its references back, with the    *)
(* order of its accesses observed.                                         *)
(***************************************************************************)
InitLru ==
  \E np \in 1..MaxPartitions, nl \in 1..MaxLanes, hw \in 1..MaxHiwat :
    /\ nl * hw <= MaxHandles
    /\ Configured(np, nl, hw)
    /\ hist = NoHist(TRUE)
    /\ NoListing
    /\ NoSessions
    /\ rd = NoRead

NextLru ==
  \/ \E parent \in Parents(TreeDepth), name \in Names :
       \E cflags \in CFlags(parent) :
         Budget /\ LookupFhCall(1, parent, name, cflags)
  \/ LookupFhFind(1)
  \/ LookupFhRef(1)
  \/ LookupFhInsert(1)
  \/ LookupFhDetach(1)
  \/ LookupFhPublish(1)
  \/ LookupReturn(1)
  \/ \E h \in DOMAIN owned : Unref(1, h)

SpecLru == InitLru /\ [][NextLru]_vars

(***************************************************************************)
(* Properties.                                                             *)
(***************************************************************************)
Linked == UNION {part[p] : p \in DOMAIN part}

AtRet(t) == pc[t] = "ret" /\ frame[t].op \in {"lookup_fh", "lookup_handle"}

\* C1: the handle index never holds two handles with the same key
\* (bucket_hash, object_hash), whatever the interleaving of lookup_fh,
\* lookup_handle, unref and recycling.
C1_UniqueKeys ==
  \A h1 \in Linked, h2 \in Linked : h1 # h2 => obj[h1].fhk # obj[h2].fhk

\* two lookups of one key raced: one made the handle and holds it, the other
\* found it in the index
C1_Witness ==
  \E t1 \in Threads, t2 \in Threads :
    /\ t1 # t2
    /\ frame[t1].op = "lookup_fh" /\ frame[t2].op = "lookup_fh"
    /\ frame[t1].fhk = frame[t2].fhk
    /\ pc[t1] = "ret" /\ frame[t1].made = "recycle"
    /\ pc[t2] = "ref" /\ frame[t2].fh = frame[t1].fh
    /\ Cardinality(Linked) = 2

\* two returned lookup_fh calls for the same (parent, name), neither yet
\* handed to its caller (so neither unref'd), with no close() around
BothReturned(t1, t2) ==
  /\ t1 # t2
  /\ AtRet(t1) /\ AtRet(t2)
  /\ frame[t1].op = "lookup_fh" /\ frame[t2].op = "lookup_fh"
  /\ frame[t1].parent = frame[t2].parent /\ frame[t1].name = frame[t2].name
  /\ frame[t1].fh # Null /\ frame[t2].fh # Null
  /\ ~hist.closeCalled

\* C2: two concurrent lookup_fh calls for the same (parent, name) on a key
\* that was not cached (one of them had to make the handle): exactly one
\* factory call happened, both return the same handle, and its refcount is 2
\* (plus the references other callers hold) once both have returned.
C2_OneCreator ==
  \A t1 \in Threads, t2 \in Threads :
    (BothReturned(t1, t2) /\ frame[t1].made # "no") =>
      /\ frame[t2].made = "no"
      /\ frame[t1].fh = frame[t2].fh
      /\ frame[t1].fh \in Live
      /\ obj[frame[t1].fh].refcnt =
           owned[frame[t1].fh]
           + Cardinality({t \in Threads : AtRet(t) /\ frame[t].fh = frame[t1].fh})

C2_Witness ==
  \E t1 \in Threads, t2 \in Threads :
    /\ BothReturned(t1, t2)
    /\ frame[t1].made = "alloc"
    /\ frame[t1].fh = frame[t2].fh
    /\ obj[frame[t1].fh].refcnt = 2

\* a step of lru.insert by some thread: its scan, or the detach and recycle
InsertStep ==
  \E t \in Threads : pc[t] \in {"insert", "detach"} /\ pc'[t] # pc[t]

\* h is the same object after the step: not freed, not re-initialised, not
\* claimed by a reclaimer
Kept(h) ==
  /\ h \in DOMAIN obj'
  /\ ~obj'[h].freed
  /\ obj'[h].fhk = obj[h].fhk
  /\ obj'[h].name = obj[h].name
  /\ obj'[h].parent = obj[h].parent
  /\ obj'[h].refcnt = obj[h].refcnt
  /\ ~obj'[h].pending

\* before close(), every reference a caller holds is counted in the handle
Pinned ==
  ~hist.closeCalled =>
    \A h \in DOMAIN owned : owned[h] > 0 => h \in Live /\ obj[h].refcnt >= owned[h]

\* C3: a handle whose refcount is above 0 is never the victim of the
\* eviction scan of lru.insert: no step of lru.insert claims, recycles or
\* frees it; and a handle a caller holds has such a refcount, so its key stays
\* the same while the caller holds it.
C3_PinnedNotReclaimed ==
  /\ []Pinned
  /\ [][InsertStep => \A h \in Live : obj[h].refcnt > 0 => Kept(h)]_vars

\* a caller holds one handle of a full lane while a lookup recycles the other
C3_Witness ==
  \E t \in Threads, h \in Live :
    /\ owned[h] > 0 /\ obj[h].refcnt > 0
    /\ pc[t] = "publish" /\ frame[t].made = "recycle"
    /\ lane_of(h) = lane_of(frame[t].fh)
    /\ lanes[lane_of(h)][Len(lanes[lane_of(h)])] = h

\* C4: a lookup_fh or lookup_handle that returns a handle for key k returns
\* one whose key is k, with a refcount of at least 1, that no reclaimer has
\* claimed; when lru.ref fails on a claimed handle the lookup drops the
\* partition latch and retries.
C4_ReturnsReferenced ==
  [][\A t \in Threads :
       /\ (pc[t] \in {"find", "ref", "publish"} /\ pc'[t] = "ret"
           /\ frame'[t].fh # Null) =>
            /\ frame'[t].fh \in DOMAIN obj'
            /\ ~obj'[frame'[t].fh].freed
            /\ obj'[frame'[t].fh].fhk = frame'[t].fhk
            /\ frame'[t].fhk = frame[t].fhk
            /\ obj'[frame'[t].fh].refcnt >= 1
            /\ ~obj'[frame'[t].fh].pending
       /\ (pc[t] = "ref" /\ obj[frame[t].fh].pending /\ pc'[t] # pc[t]) =>
            /\ pc'[t] = "find"
            /\ platch'[PartOf(frame[t].fhk)] = Null
            /\ obj' = obj
    ]_vars

\* a lookup lost the race against a reclaimer, retried, and now returns a
\* handle for its key
C4_Witness ==
  \E t \in Threads :
    /\ AtRet(t) /\ frame[t].retried /\ frame[t].fh # Null
    /\ obj[frame[t].fh].fhk = frame[t].fhk

\* a step of RGWLibFS::unref on h
UnrefStep(h) == ~closed /\ pc' = pc /\ owned'[h] = owned[h] - 1

\* C5: unref to refcount 0 leaves the handle linked in its partition and its
\* lane; a lookup that then hits it before a reclaimer claims it returns that
\* same handle with refcount 1 and makes no factory call.
C5_ZeroRefRevived ==
  [][/\ \A h \in Live :
          (UnrefStep(h) /\ obj'[h].refcnt = 0) =>
            /\ h \in DOMAIN obj' /\ ~obj'[h].freed
            /\ obj'[h].fhk = obj[h].fhk
            /\ part' = part
            /\ \A l \in DOMAIN lanes : InLane(h, l) =>
                 \E i \in 1..Len(lanes'[l]) : lanes'[l][i] = h
     /\ \A t \in Threads :
          (/\ pc[t] = "ref" /\ pc'[t] # pc[t]
           /\ obj[frame[t].fh].refcnt = 0 /\ ~obj[frame[t].fh].pending) =>
            /\ pc'[t] = "ret"
            /\ frame'[t].fh = frame[t].fh
            /\ frame'[t].made = "no"
            /\ obj'[frame[t].fh].refcnt = 1
            /\ obj'[frame[t].fh].fhk = frame[t].fhk
            /\ DOMAIN obj' = DOMAIN obj
    ]_vars

\* a released handle (nobody holds it) was found again and is returned with
\* one reference, by lookup_fh
C5_Witness ==
  \E t \in Threads :
    /\ AtRet(t) /\ frame[t].op = "lookup_fh" /\ frame[t].made = "no"
    /\ frame[t].fh \in Live
    /\ obj[frame[t].fh].refcnt = 1 /\ owned[frame[t].fh] = 0
    /\ frame[t].fh \in Linked

\* C6: when lookup_fh misses and lru.insert returns null (lane full, nothing
\* reclaimable), lookup_fh terminates: its next position is the return, with
\* a null handle (OUT_OF_HANDLES), and no handle was admitted.
C6_InsertNullReturns ==
  [][\A t \in Threads :
       (pc[t] = "insert" /\ pc'[t] \notin {"insert", "detach", "publish"}) =>
         /\ pc'[t] = "ret"
         /\ frame'[t].fh = Null
         /\ part' = part /\ obj' = obj
    ]_vars

\* C7: once close() has returned, a call of lookup_fh or of lookup_handle
\* goes straight to its return with a null handle, and neither the call nor
\* its return changes the index, the lanes or a refcount.
C7_ClosedLookupsReturnNull ==
  [][\A t \in Threads :
       /\ (/\ hist.closeDone /\ pc[t] = "idle"
           /\ frame'[t].op \in {"lookup_fh", "lookup_handle"}) =>
             /\ pc'[t] = "ret" /\ frame'[t].fh = Null
             /\ part' = part /\ lanes' = lanes /\ obj' = obj
       /\ (/\ hist.closeDone /\ pc[t] = "ret" /\ frame[t].fhk = NoKey
           /\ pc'[t] # "ret") =>
             /\ pc'[t] = "idle"
             /\ part' = part /\ lanes' = lanes /\ obj' = obj
             /\ owned' = owned
    ]_vars

\* close() has returned, the index is not empty, and a lookup called since
\* is at its return, empty-handed
C7_Witness ==
  /\ hist.closeDone
  /\ Linked # {}
  /\ \E t \in Threads :
       AtRet(t) /\ frame[t].fh = Null /\ frame[t].fhk = NoKey

\* C8: when close() and every lookup that ran beside it have returned, the
\* index holds no handle that was inserted after CLOSED was set.
C8_NothingAdmittedAfterClosed ==
  (hist.closeDone /\ \A t \in Threads : pc[t] = "idle") =>
    hist.late \cap Linked = {}

\* C9: no handle of the cache has a depth above MAX_DEPTH.
C9_DepthBounded == \A h \in Live : obj[h].depth <= MAX_DEPTH

\* the partitions h is linked in, and the one its key selects
PartitionsOf(h) == {p \in DOMAIN part : h \in part[p]}

KeyPartition(h) == Fh(h).fhk.object % Cardinality(DOMAIN part)

\* h is queued once, in one lane
OneLane(h) ==
  Cardinality(UNION {{<<l, i>> : i \in {j \in 1..Len(lanes[l]) :
                                             lanes[l][j] = h}} :
                     l \in DOMAIN lanes}) = 1

\* h is in the hands of an insert that recycles it or has yet to publish it
Negotiated(h) ==
  \E t \in Threads : \/ (pc[t] = "detach" /\ frame[t].victim = h)
                      \/ (pc[t] = "publish" /\ frame[t].fh = h)

\* an insert has made h and has yet to publish it
Unpublished(h) == \E t \in Threads : pc[t] = "publish" /\ frame[t].fh = h

LiveKeys == {obj[h].fhk : h \in Live}

LastAccessed(n) == {hist.recent[i] : i \in 1..n}

\* no call is running and every reference handed out was given back
Released ==
  /\ \A t \in Threads : pc[t] = "idle"
  /\ \A a \in DOMAIN owned : owned[a] = 0

Capacity == Cardinality(DOMAIN lanes) * lane_hiwat

\* C11 as stated: the live handles never number more than L x hiwat, and
\* after lookup_fh calls for distinct keys, every reference released, the
\* handles that survive are those of the keys accessed last.
C11_SurvivorsMostRecent ==
  /\ Cardinality(Live) <= Capacity
  /\ (Released /\ ~hist.repeat) =>
       LiveKeys = LastAccessed(Cardinality(LiveKeys))

\* the place of h in the queue of lane l
PlaceIn(l, h) == CHOOSE i \in 1..Len(lanes[l]) : lanes[l][i] = h

\* lru.insert claims, of the lane it chose, the reclaimable handle nearest
\* the LRU end, and allocates only in a lane below its high-water mark that
\* holds no reclaimable handle
InsertRule ==
  \A t \in Threads :
    /\ (pc[t] = "insert" /\ pc'[t] = "detach") =>
         LET v == frame'[t].victim
             l == frame'[t].lane
         IN /\ InLane(v, l) /\ can_reclaim(v)
            /\ \A j \in (PlaceIn(l, v) + 1)..Len(lanes[l]) :
                 ~can_reclaim(lanes[l][j])
            /\ DOMAIN obj' = DOMAIN obj
    /\ (pc[t] = "insert" /\ pc'[t] = "publish") =>
         \E l \in DOMAIN lanes :
           /\ Len(lanes[l]) < lane_hiwat
           /\ Len(lanes'[l]) = Len(lanes[l]) + 1
           /\ \A j \in 1..Len(lanes[l]) : ~can_reclaim(lanes[l][j])

\* C11: the live handles never number more than L x hiwat; an insert
\* recycles the zero-reference reclaimable handle of its lane nearest the
\* LRU end if there is one, and allocates only below the high-water mark.
C11_CapacityKept == [](Cardinality(Live) <= Capacity) /\ [][InsertRule]_vars

\* every reference is released, the cache is full, and more distinct keys
\* were looked up than it holds: handles were recycled
C11_Witness ==
  /\ Released /\ ~hist.repeat
  /\ Cardinality(Live) = Capacity
  /\ Len(hist.recent) > Capacity

\* a step of the lookup_handle call that thread t is running
HandleStep(t) == frame[t].op = "lookup_handle" /\ pc'[t] # pc[t]

\* what a handle is, its reference count apart
Uncounted(o) == [h \in DOMAIN o |-> [o[h] EXCEPT !.refcnt = 0]]

LookupHandleRule(t) ==
  LET fh == frame[t].fh
  IN /\ part' = part /\ lanes' = lanes
     /\ Uncounted(obj') = Uncounted(obj)
     /\ (pc[t] = "find" /\ find(frame[t].fhk) = Null) =>
          pc'[t] = "ret" /\ frame'[t].fh = Null /\ obj' = obj
     /\ (pc[t] = "ref" /\ ~obj[fh].pending) =>
          /\ pc'[t] = "ret" /\ frame'[t].fh = fh
          /\ obj[fh].fhk = frame[t].fhk
          /\ obj' = [obj EXCEPT ![fh].refcnt = @ + 1]
     /\ (pc[t] # "ret" /\ pc'[t] = "ret" /\ frame'[t].fh # Null) =>
          obj'[frame'[t].fh].refcnt = obj[frame'[t].fh].refcnt + 1

\* C12: no step of lookup_handle creates, removes, relinks or requeues a
\* handle; a miss returns null and leaves every reference count as it was;
\* a hit on a handle that is not being reclaimed returns that handle with
\* its count raised by exactly one, and nothing is returned otherwise.
C12_LookupHandleFrame ==
  [][\A t \in Threads : HandleStep(t) => LookupHandleRule(t)]_vars

\* one lookup_handle has returned a handle and another has missed
C12_Witness ==
  \E t, u \in Threads :
    /\ pc[t] = "ret" /\ frame[t].op = "lookup_handle" /\ frame[t].fh # Null
    /\ pc[u] = "ret" /\ frame[u].op = "lookup_handle" /\ frame[u].fh = Null
    /\ frame[u].fhk # NoKey

\* the step in which thread t's open() runs
OpenRule(t) ==
  LET h == frame[t].fh
  IN (pc[t] = "open" /\ pc'[t] = "ret") =>
       /\ (frame'[t].rc = 0) <=> ~is_open(h)
       /\ ~is_open(h) => obj' = [obj EXCEPT ![h].flags = @ \cup {"OPEN"}]
       /\ is_open(h) => frame'[t].rc = EPERM /\ obj' = obj

\* open() calls on h that have run and not yet returned
Opened(h) ==
  {t \in Threads : pc[t] = "ret" /\ frame[t].op = "open" /\ frame[t].fh = h}

\* of the calls on one handle that have run and not yet returned at most one
\* got 0, and the handle is open once any call has run
OneOpens ==
  \A h \in Live :
    /\ Cardinality({t \in Opened(h) : frame[t].rc = 0}) <= 1
    /\ Opened(h) # {} => is_open(h)

\* C13: open() returns 0 exactly when FLAG_OPEN was clear, and sets it;
\* otherwise it returns EPERM and changes nothing; of the concurrent calls
\* on a handle that was not open, one returns 0 and no second one does.
C13_OpenOnce == []OneOpens /\ [][\A t \in Threads : OpenRule(t)]_vars

\* two calls were made on a handle that was not open: one has returned 0,
\* the other EPERM
C13_Witness ==
  \E t, u \in Threads :
    /\ pc[t] = "ret" /\ pc[u] = "ret"
    /\ frame[t].op = "open" /\ frame[u].op = "open"
    /\ frame[t].fh = frame[u].fh
    /\ frame[t].clear /\ frame[u].clear
    /\ frame[t].rc = 0 /\ frame[u].rc = EPERM

\* C14: on a directory handle, whatever its marker cache holds (an entry at
\* off included), find_marker(off) right after add_marker(off, name) gives
\* name.
C14_AddThenFind ==
  [][(req'.ix = req.ix + 1) =>
       find_marker(marker_cache', called'.off) = called'.name]_vars

\* C15: once rcb has returned non-zero for an entry of a listing, rcb is
\* called for no later entry of it and no later marker is cached.
C15_AbortOnNonZero ==
  [][(req.stopped /\ req'.kind = req.kind) =>
       (req'.ix = req.ix /\ marker_cache' = marker_cache)]_vars

\* C16: for an entry of a bucket listing or an object listing, the cookie
\* handed to rcb, the offset its marker is cached under and the value left
\* in *offset are all H(name); a readdir restarted with the *offset the last
\* one left finds the marker of the last entry.
C16_CookieIsHash ==
  called # NoCall =>
    /\ called.cookie = XXH64(called.entry, seed)
    /\ called.off = XXH64(called.entry, seed)
    /\ offset = XXH64(called.entry, seed)
    /\ find_marker(marker_cache, offset) = called.entry

\* the session map after the step
SMNext == [session_map |-> session_map', sess |-> sess', by_state |-> by_state']

\* the step is a call set_state(s, result'.arg)
SetStateCalled(s) == result'.op = "set_state" /\ result'.session = s

OnList(q, s) == \E i \in 1..Len(q) : q[i] = s

SetStateRule(s) ==
  LET old == sess[s].state
      seq == sess[s].state_seq
      st  == result'.arg
  IN /\ sess'[s].state_seq # seq => SetStateCalled(s)
     /\ sess'[s].state # old => sess'[s].state_seq = seq + 1
     /\ SetStateCalled(s) =>
          IF old # st
            THEN /\ sess'[s].state = st
                 /\ sess'[s].state_seq = seq + 1
                 /\ ~OnList(by_state'[old], s)
                 /\ by_state'[st] = Without(by_state[st], s) \o <<s>>
                 /\ result'.value = seq + 1
            ELSE /\ UNCHANGED <<session_map, sess, by_state>>
                 /\ result'.value = seq

\* C17: set_state to another state adds one to state_seq, takes the session
\* off the list of the old state and makes it the tail of the new one; to
\* the same state it changes nothing; it returns the state_seq it leaves;
\* nothing else changes the state_seq of a session, and every change of
\* state raises it by one.
C17_SetStateCounts ==
  [][\A s \in DOMAIN sess \cap DOMAIN sess' : SetStateRule(s)]_vars

\* a second change of state of a registered session has brought it behind
\* another session on the list of its new state
C17_Witness ==
  /\ result.op = "set_state" /\ result.value = 2
  /\ Registered(result.session)
  /\ Len(by_state[result.arg]) = 2
  /\ by_state[result.arg][2] = result.session

\* the places where s is linked
Links(s) ==
  {l \in States \X (1..MaxSessions) :
     l[2] <= Len(by_state[l[1]]) /\ by_state[l[1]][l[2]] = s}

LinkedOnce ==
  \A w \in DOMAIN session_map :
    /\ session_map[w] \in DOMAIN sess
    /\ Cardinality(Links(session_map[w])) = 1
    /\ OnList(by_state[sess[session_map[w]].state], session_map[w])

TailRule ==
  \A s \in DOMAIN sess \cap DOMAIN sess' :
    sess'[s].state # sess[s].state =>
      by_state'[sess'[s].state][Len(by_state'[sess'[s].state])] = s

\* C18: every session in the session map is linked exactly once, on the
\* list of its state and on no other; a session whose state has just
\* changed is the tail of the list of the new state.
C18_LinkedInStateList == []LinkedOnce /\ [][TailRule]_vars

\* two registered sessions share a list after one of them was touched
C18_Witness ==
  /\ result.op = "touch_session"
  /\ \E st \in States : Len(by_state[st]) = 2
  /\ \A s \in DOMAIN sess : Registered(s) /\ sess[s].state_seq > 0

\* C19: get_or_add_open_session for a name that has no session makes one
\* session, in state OPEN; for a name that has one it returns that session
\* and leaves the map, every session and every list as they were.
C19_GetOrAddIdempotent ==
  [][result'.op = "get_or_add_open_session" =>
       LET name == result'.arg
           s    == result'.session
       IN IF name \in DOMAIN session_map
            THEN /\ s = session_map[name]
                 /\ UNCHANGED <<session_map, sess, by_state>>
            ELSE /\ s \notin DOMAIN sess
                 /\ DOMAIN sess' = DOMAIN sess \cup {s}
                 /\ DOMAIN session_map' = DOMAIN session_map \cup {name}
                 /\ session_map'[name] = s
                 /\ \A w \in DOMAIN session_map :
                      session_map'[w] = session_map[w]
                 /\ \A a \in DOMAIN sess : sess'[a] = sess[a]
                 /\ sess'[s].state = STATE_OPEN
                 /\ sess'[s].state_seq = 1
                 /\ by_state' = [by_state EXCEPT ![STATE_OPEN] = @ \o <<s>>]
    ]_vars

\* a call for a name whose session is no longer OPEN has returned it
C19_Witness ==
  /\ result.op = "get_or_add_open_session"
  /\ result.value = 1
  /\ sess[result.session].state = STATE_CLOSING
  /\ Cardinality(DOMAIN sess) = 2

\* C20: trim_completed_requests(client, min_tid) takes away the tids below
\* min_tid, all of them when min_tid is 0, and no other; afterwards
\* have_completed_request is true of the tids that were there and stayed.
C20_TrimBelowMin ==
  [][result'.op = "trim_completed_requests" =>
       LET s      == result'.session
           before == sess[s].completed_requests
           after  == IF result'.arg = 0 THEN {}
                     ELSE {t \in before : t >= result'.arg}
       IN /\ sess'[s].completed_requests = after
          /\ \A t \in Tids :
               have_completed_request(SMNext, sess[s].name, t) <=> t \in after
    ]_vars

\* a trim with min_tid above 0 took some tids and left others
C20_Witness ==
  /\ result.op = "trim_completed_requests"
  /\ result.arg > 0
  /\ result.value > 0
  /\ sess[result.session].completed_requests # {}

\* C21: take_ino on a session whose prealloc_inos is not empty returns its
\* argument when that is not 0 and in prealloc_inos, else the least number
\* of prealloc_inos; the number returned, and no other, leaves
\* prealloc_inos and enters used_inos; pending_prealloc_inos stays.
C21_TakeIno ==
  [][result'.op = "take_ino" =>
       LET S    == sess[result'.session]
           T    == sess'[result'.session]
           hint == result'.arg
           r    == result'.value
       IN /\ S.prealloc_inos # {}
          /\ r = IF hint # 0 /\ hint \in S.prealloc_inos THEN hint
                 ELSE CHOOSE i \in S.prealloc_inos :
                        \A j \in S.prealloc_inos : i <= j
          /\ r \notin S.used_inos
          /\ T.prealloc_inos = S.prealloc_inos \ {r}
          /\ T.used_inos = S.used_inos \cup {r}
          /\ T.pending_prealloc_inos = S.pending_prealloc_inos
    ]_vars

\* take_ino has returned its argument although a lesser number was there
C21_Witness ==
  /\ result.op = "take_ino"
  /\ result.value = result.arg
  /\ \E i \in sess[result.session].prealloc_inos : i < result.value
  /\ result.value \in sess[result.session].used_inos

\* C22: take_ino on a session whose prealloc_inos is empty returns the
\* error NO_PREALLOC and leaves the three sets as they were.
C22_EmptyGivesError ==
  [][\A s \in DOMAIN sess :
       (sess[s].prealloc_inos = {} /\ result'.session = s
          /\ result'.op \in {"take_ino", "abort"}) =>
         /\ result'.op = "take_ino"
         /\ result'.value = "NO_PREALLOC"
         /\ sess' = sess
    ]_vars

\* C23: the three sets of every session stay pairwise disjoint through
\* take_ino, encode, decode and clear.
C23_SetsDisjoint == \A s \in DOMAIN sess : Disjoint(sess[s])

\* a session that had used numbers when it was encoded has been decoded in
\* place, pending numbers and all
C23_Witness ==
  /\ result.op = "decode" /\ result.arg = 0
  /\ wire[5] # {}
  /\ sess[result.session].pending_prealloc_inos # {}
  /\ sess[result.session].prealloc_inos = wire[4] \cup wire[5]

\* C24: a session encoded and then decoded into a fresh session comes out
\* with prealloc_inos the union of the old prealloc_inos and used_inos, an
\* empty used_inos, and the instance and completed_requests it had.
C24_RoundTrip ==
  [][(result.op = "encode" /\ result'.op = "decode" /\ result'.arg = 1) =>
       LET S == sess[result'.session]
           T == sess'[result'.session]
       IN /\ T.prealloc_inos = S.prealloc_inos \cup S.used_inos
          /\ T.used_inos = {}
          /\ T.name = S.name
          /\ T.completed_requests = S.completed_requests
    ]_vars

\* a fresh session holds what an encoding with used numbers and completed
\* requests carried
C24_Witness ==
  /\ result.op = "decode" /\ result.arg = 1
  /\ wire[5] # {} /\ wire[4] # {} /\ wire[3] # {}
  /\ sess[result.session].prealloc_inos = wire[4] \cup wire[5]
  /\ sess[result.session].used_inos = {}

\* C25: touch_session of a session that is on a list makes it the tail of
\* the list of its state and changes neither state nor state_seq; of a
\* session on no list it stops the process and links nothing.
C25_TouchLinkedOnly ==
  [][\A s \in DOMAIN sess :
       (result'.session = s /\ result'.op \in {"touch_session", "abort"}) =>
         IF is_on_xlist(by_state, s)
           THEN /\ result'.op = "touch_session"
                /\ by_state' = [st \in States |->
                     IF st = sess[s].state
                       THEN Without(by_state[st], s) \o <<s>>
                       ELSE by_state[st]]
                /\ UNCHANGED <<session_map, sess>>
           ELSE /\ result'.op = "abort"
                /\ UNCHANGED <<session_map, sess, by_state>>
    ]_vars

\* touch_session of a session on no list has stopped the process, beside a
\* registered session
C25_Witness ==
  /\ result.op = "abort"
  /\ result.session \in DOMAIN sess
  /\ ~is_on_xlist(by_state, result.session)
  /\ \E s \in DOMAIN sess : Registered(s) /\ sess[s].state_seq > 1


(***************************************************************************)
(* C26: the key under which lookup_fh(parent, name) probes the index and   *)
(* admits a new handle is parent.make_fhk(name): the hash of the name for  *)
(* a parent of depth 0 or 1, the hash of the parent's path, a slash and    *)
(* the name for a deeper parent, each segment of the path once.            *)
(***************************************************************************)
C26_KeyIsMakeFhk ==
  [][\A t \in Threads :
       (/\ pc[t] = "idle"
        /\ pc'[t] = "find"
        /\ frame'[t].op = "lookup_fh")
       => frame'[t].fhk = make_fhk(frame'[t].parent, frame'[t].name)]_vars


(***************************************************************************)
(* C27: whatever buffer lists send_response_data is called with, nread     *)
(* never exceeds read_len and nothing is written into the caller's buffer  *)
(* at a position at or beyond read_len.                                    *)
(***************************************************************************)
C27_ReadBounded ==
  rd.active => /\ rd.nread <= rd.read_len
               /\ rd.high <= rd.read_len


(***************************************************************************)
(* C28: on a miss lookup_fh has released the partition latch of its key    *)
(* when it calls lru.insert: no thread is inside lru.insert (its scan and  *)
(* its reclaim) holding the partition latch of its own lookup.             *)
(***************************************************************************)
C28_InsertUnlatched ==
  \A t \in Threads :
    pc[t] \in {"insert", "detach"} => platch[PartOf(frame[t].fhk)] # t

\* thread t cannot take its next step before a thread of D gives up a latch
WaitsOn(t, D) ==
  CASE pc[t] = "find" -> platch[PartOf(frame[t].fhk)] \in D
    [] pc[t] = "ref" -> /\ ~ref_fails(frame[t].fh)
                        /\ llatch[lane_of(frame[t].fh)] \in D
    [] pc[t] = "insert" -> \A l \in DOMAIN lanes : llatch[l] \in D
    [] pc[t] = "detach" -> platch[PartOf(obj[frame[t].victim].fhk)] \in D
    [] pc[t] = "drain" -> platch[frame[t].ix] \in D
    [] pc[t] = "visit" -> /\ part[frame[t].ix] # {}
                          /\ llatch[lane_of(First(frame[t].ix))] \in D
    [] OTHER -> FALSE

\* a set of threads each of which waits for a latch another one of them, or
\* itself, holds
CyclicWait(D) == D # {} /\ \A t \in D : WaitsOn(t, D)

(***************************************************************************)
(* C29: no reachable state of concurrent lookup_fh, lookup_handle and      *)
(* unref calls is a deadlock: there is no set of threads waiting on one    *)
(* another's partition and lane latches.                                   *)
(***************************************************************************)
C29_NoCyclicWait ==
  \A D \in SUBSET {t \in Threads : frame[t].op # "close"} : ~CyclicWait(D)

\* the step of thread t unlocks the partition latch of its key: after
\* lru.ref (lines 582 and 602, 647 and 651), when lru.insert returned null
\* (line 598), and in insert_latched (line 594)
Unlocks(t) ==
  /\ frame[t].op \in {"lookup_fh", "lookup_handle"}
  /\ \/ pc[t] = "ref" /\ pc'[t] # "ref"
     \/ pc[t] = "insert" /\ pc'[t] = "find"
     \/ pc[t] = "publish" /\ pc'[t] = "ret"

HoldsNone(t) == \A p \in DOMAIN platch : platch[p] # t

(***************************************************************************)
(* C30: a thread that returns from lookup_fh or lookup_handle, on a hit,   *)
(* after an insert, on a miss of lookup_handle, on a closed context, after *)
(* retries, holds no partition latch, and a step that unlocks the latch of *)
(* a lookup is taken by the thread that holds it.                          *)
(***************************************************************************)
C30_ReturnsUnlatched ==
  /\ [](\A t \in Threads : AtRet(t) => HoldsNone(t))
  /\ [][\A t \in Threads :
          Unlocks(t) => platch[PartOf(frame[t].fhk)] = t]_vars

\* a lookup_fh that missed and inserted returns while another thread, which
\* had to retry, holds the latch of its own lookup
C30_Witness ==
  \E t, u \in Threads :
    /\ AtRet(t) /\ frame[t].op = "lookup_fh" /\ frame[t].made # "no"
    /\ HoldsNone(t)
    /\ frame[u].retried /\ platch[PartOf(frame[u].fhk)] = u


\* the steps of NEW -> OPENING -> OPEN -> (STALE ->)* CLOSING -> CLOSED
Lifecycle ==
  { <<STATE_NEW, STATE_OPENING>>, <<STATE_OPENING, STATE_OPEN>>,
    <<STATE_OPEN, STATE_STALE>>, <<STATE_STALE, STATE_STALE>>,
    <<STATE_OPEN, STATE_CLOSING>>, <<STATE_STALE, STATE_CLOSING>>,
    <<STATE_CLOSING, STATE_CLOSED>> }

\* the state of the Session at address s before the step: a Session that
\* the step constructs starts in STATE_NEW (line 141)
StateBefore(s) == IF s \in DOMAIN sess THEN sess[s].state ELSE STATE_NEW

(***************************************************************************)
(* C31: whatever session-map operation is called, a session's state stays  *)
(* as it is or moves one step along NEW -> OPENING -> OPEN -> (STALE ->)*  *)
(* CLOSING -> CLOSED; it never goes from NEW to OPEN or back from a later  *)
(* state.                                                                  *)
(***************************************************************************)
C31_LifecycleOnly ==
  [][\A s \in DOMAIN sess' :
       \/ sess'[s].state = StateBefore(s)
       \/ <<StateBefore(s), sess'[s].state>> \in Lifecycle]_vars


(***************************************************************************)
(* C32: the prealloc_inos field Session::encode writes is the projected    *)
(* set, prealloc_inos together with pending_prealloc_inos: the numbers     *)
(* pending when a session is encoded are in prealloc_inos of the session   *)
(* decoded from the encoding.                                              *)
(***************************************************************************)
C32_PendingEncoded ==
  [][(result.op = "encode" /\ result'.op = "decode" /\ result'.arg = 1) =>
       /\ wire[4] = sess[result'.session].prealloc_inos
                      \cup sess[result'.session].pending_prealloc_inos
       /\ sess[result'.session].pending_prealloc_inos
            \subseteq sess'[result'.session].prealloc_inos]_vars


\* no handle is in the index or in a lane, and none is allocated
CacheEmpty ==
  /\ \A p \in DOMAIN part : part[p] = {}
  /\ \A l \in DOMAIN lanes : lanes[l] = <<>>
  /\ Live = {}

(***************************************************************************)
(* C33: close() drains the cache: every handle the visitor was called on   *)
(* is left without a reference and is freed, whatever references callers   *)
(* held, and once close() has returned, with no lookup that ran beside it  *)
(* still in flight or having inserted a handle, the index and the lanes    *)
(* are empty.                                                              *)
(***************************************************************************)
C33_CloseDrains ==
  hist.closeDone =>
    /\ hist.survivors = {}
    /\ (hist.late = {} /\ \A t \in Threads : pc[t] = "idle") => CacheEmpty


(***************************************************************************)
(* C34: RGWLibFS::ref(fh) hands fh back only when a reference was taken:   *)
(* the refcount of fh went up by one, and lru.ref had not failed on a      *)
(* handle a reclaimer has claimed.                                         *)
(***************************************************************************)
C34_RefTakesReference ==
  [][\A h \in DOMAIN obj :
       (owned'[h] = owned[h] + 1 /\ pc' = pc) =>
         /\ ~obj[h].pending
         /\ obj'[h].refcnt = obj[h].refcnt + 1]_vars


\* lru.insert called by thread t has a handle to give: t has claimed a
\* victim or has its handle, or a lane has room or a handle its scan claims
InsertCanGive(t) ==
  \/ pc[t] \in {"detach", "publish"}
  \/ \E l \in DOMAIN lanes : Len(lanes[l]) < lane_hiwat \/ Victim(l) # Null

(***************************************************************************)
(* C35: under weak fairness of the threads every lookup_fh and             *)
(* lookup_handle call in flight returns in the end, unless lru.insert has  *)
(* neither room in a lane nor a handle to reclaim.                         *)
(***************************************************************************)
C35_LookupsReturn ==
  \A t \in Threads :
    (t \in Looking /\ pc[t] # "ret") ~> (AtRet(t) \/ ~InsertCanGive(t))


\* the sessions in state st that are on a list
InState(st) ==
  {s \in DOMAIN sess : sess[s].state = st /\ \E i \in 1..Len(linked) : linked[i] = s}

\* the place of session s in the record of the links
LinkedAt(s) == CHOOSE i \in 1..Len(linked) : linked[i] = s

\* get_oldest_session was called just now
OldestCalled == result'.op = "get_oldest_session" /\ result' # result

(***************************************************************************)
(* C36: get_oldest_session(state) returns null when no session is in that  *)
(* state, and otherwise the session in that state whose last link, by      *)
(* set_state, add_session or touch_session, is the earliest; it changes    *)
(* neither the map, nor a session, nor a list.                             *)
(***************************************************************************)
C36_OldestIsFront ==
  /\ [](result.op = "get_oldest_session" =>
         IF InState(result.arg) = {} THEN result.session = Null
         ELSE /\ result.session \in InState(result.arg)
              /\ \A s \in InState(result.arg) :
                   LinkedAt(result.session) <= LinkedAt(s))
  /\ [][OldestCalled => UNCHANGED <<session_map, sess, by_state>>]_vars

\* of two sessions in one state the one with the higher address was linked
\* first, and was returned
C36_Witness ==
  /\ result.op = "get_oldest_session"
  /\ Cardinality(InState(result.arg)) = 2
  /\ \A s \in InState(result.arg) : s <= result.session
  /\ \A s \in DOMAIN sess : sess[s].state_seq > 1

=============================================================================
